---- MODULE Spec2Model ----
(***************************************************************************)
(* Request-authorization and data-consistency core of the Online Learning  *)
(* Platform API (src/backend/server.js): the per-client rate limiter, the  *)
(* token / role pipeline, and the handlers that mutate users, courses,     *)
(* lessons, enrollments and progress.                                      *)
(*                                                                         *)
(* Every handler is an async function: it runs without preemption from one *)
(* awaited storage call to the next, and other requests interleave at each *)
(* await.  One action of the model is one such run: the awaited call       *)
(* completes against the tables as they are at that moment, and the        *)
(* handler continues up to its next await or to its response.              *)
(***************************************************************************)
EXTENDS Integers, Sequences, FiniteSets, TLC

\* The tables of the database, the issued tokens and the requests being handled.
VARIABLES
  foreign_keys,   \* whether the SQLite build enforces FOREIGN KEY clauses
  users,          \* users table: id -> [email, password_hash, role]
  courses,        \* courses table: id -> [title, description, instructor_id]
  lessons,        \* lessons table: id -> [course_id, title, content, order_index]
  enrollments,    \* enrollments table: id -> [student_id, course_id]
  progress,       \* progress table: id -> [student_id, lesson_id, completed, completed_at]
  audit_log,      \* audit_log rows, oldest first, written by the requests still in a slot
  sqlite_sequence,\* AUTOINCREMENT: table name -> largest id ever given out
  tokens,         \* payloads of the tokens jwt.sign has issued
  reqs            \* request slot -> the request in it and where its handler stands

dbVars == <<foreign_keys, users, courses, lessons, enrollments, progress,
            audit_log, sqlite_sequence, tokens>>

(***************************************************************************)
(* THE PROCESS  (server.js 36, 941-960)                                    *)
(***************************************************************************)
VARIABLES
  proc            \* [listening, stopping, db, exited]: the listener, whether
                  \* server.close has been called, the sqlite3 handle, the process

\* The process once app.listen has bound and the database is open.
Running == [listening |-> TRUE, stopping |-> FALSE, db |-> "open", exited |-> FALSE]

InitProcess == proc = Running

(***************************************************************************)
(* RATE LIMITING  (server.js 130-163)                                      *)
(***************************************************************************)
RATE_LIMIT_WINDOW_MS == 15 * 60 * 1000
RATE_LIMIT_MAX_REQUESTS == 100
SWEEP_INTERVAL_MS == 5 * 60 * 1000

\* Client keys (req.ip) that send requests.
Clients == {"ip1", "ip2"}
\* The clock is read at multiples of the sweep interval, up to MaxTicks of them.
MaxTicks == 4
\* A client stops sending once its counter is MaxOver past the ceiling.
MaxOver == 2

VARIABLES
  now,            \* Date.now(), in ms
  rateLimiters,   \* the Map: client key -> [count, resetTime]
  rlStatus,       \* per client, the status the limiter gave its latest request
  refWindow,      \* per client, the reference window: [start, n] (history)
  traffic,        \* per recorded client and time, the requests sent and the
                  \* requests admitted at that time (history)
  pipe            \* per followed client, its latest request on its way through
                  \* the app.use chain: [method, ctype, parsed, counted, stage, status]

rlVars == <<now, rateLimiters, rlStatus, refWindow, traffic, pipe>>

\* The statuses the limiter produces: 200 stands for next().
ADMIT == 200
TOO_MANY == 429

\* rateLimiters.get(clientKey) is undefined
NoEntry(map, c) == c \notin DOMAIN map

\* Variant: the window has elapsed once a full window duration has passed.
WindowElapsed_AtBoundary(map, c, t) ==
  IF NoEntry(map, c) THEN TRUE ELSE t - map[c].resetTime >= RATE_LIMIT_WINDOW_MS

\* server.js 150: the entry is missing or its window has elapsed
WindowElapsed(map, c, t) ==
  IF NoEntry(map, c) THEN TRUE ELSE t - map[c].resetTime > RATE_LIMIT_WINDOW_MS

\* Variant: a request over the ceiling restarts the window it is refused in.
CountedEntry_RefusalRestarts(map, c, t) ==
  IF WindowElapsed(map, c, t)
    THEN [count |-> 1, resetTime |-> t]
    ELSE [count |-> map[c].count + 1,
          resetTime |-> IF map[c].count + 1 > RATE_LIMIT_MAX_REQUESTS
                          THEN t ELSE map[c].resetTime]

\* server.js 148-155: the entry after this request has been counted
CountedEntry(map, c, t) ==
  IF WindowElapsed(map, c, t)
    THEN [count |-> 1, resetTime |-> t]
    ELSE [count |-> map[c].count + 1, resetTime |-> map[c].resetTime]

\* Variant: the request that reaches the ceiling is already refused.
LimiterDecision_AtCeiling(entry) ==
  IF entry.count >= RATE_LIMIT_MAX_REQUESTS THEN TOO_MANY ELSE ADMIT

\* server.js 157-162: 429 when the count exceeds the ceiling, else next()
LimiterDecision(entry) ==
  IF entry.count > RATE_LIMIT_MAX_REQUESTS THEN TOO_MANY ELSE ADMIT

\* Variant: the sweep deletes an entry once a full window duration has passed.
SweepExpired_AtBoundary(entry, t) == t - entry.resetTime >= RATE_LIMIT_WINDOW_MS

\* server.js 138: the sweep's test on one entry
SweepExpired(entry, t) == t - entry.resetTime > RATE_LIMIT_WINDOW_MS

\* The reference window of a client: it opens at the first request that comes
\* after the previous one has elapsed, and counts the requests in it.
\* (n = 0: the client has sent nothing yet.)
RefCounted(w, t) ==
  IF w.n = 0 \/ t - w.start > RATE_LIMIT_WINDOW_MS
    THEN [start |-> t, n |-> 1]
    ELSE [start |-> w.start, n |-> w.n + 1]

\* The times a burst around a window boundary is sent at: the opening of a
\* window, its last millisecond, and the first millisecond after it.
BurstTimes == {0, RATE_LIMIT_WINDOW_MS, RATE_LIMIT_WINDOW_MS + 1}

\* The history of a recorded client with one more request at time t.
Recorded(tr, c, t, status) ==
  IF c \notin DOMAIN tr THEN tr
  ELSE [tr EXCEPT ![c][t] = [sent |-> @.sent + 1,
                             admitted |-> @.admitted + (IF status = ADMIT THEN 1 ELSE 0)]]

\* The request of a followed client once the limiter has decided on it: it
\* has been counted, and it is answered 429 or goes on to the routes.
Limited(pp, c, status) ==
  IF c \notin DOMAIN pp THEN pp
  ELSE [pp EXCEPT ![c].counted = TRUE,
                  ![c].stage = IF status = TOO_MANY THEN "done" ELSE "routes",
                  ![c].status = IF status = TOO_MANY THEN TOO_MANY ELSE 0]

\* perClientRateLimit(req, res, next) for a request of client c.  The
\* RATE_LIMIT_EXCEEDED row a refusal writes is the row of no request in a slot,
\* and audit_log holds the rows of those only.
perClientRateLimit(c) ==
  /\ IF WindowElapsed(rateLimiters, c, now) THEN TRUE
     ELSE rateLimiters[c].count < RATE_LIMIT_MAX_REQUESTS + MaxOver
  /\ LET entry == CountedEntry(rateLimiters, c, now)
     IN /\ rateLimiters' =
             [k \in DOMAIN rateLimiters \cup {c} |->
                IF k = c THEN entry ELSE rateLimiters[k]]
        /\ rlStatus' = [rlStatus EXCEPT ![c] = LimiterDecision(entry)]
        /\ traffic' = Recorded(traffic, c, now, LimiterDecision(entry))
        /\ pipe' = Limited(pipe, c, LimiterDecision(entry))
  /\ refWindow' = [refWindow EXCEPT ![c] = RefCounted(refWindow[c], now)]
  /\ UNCHANGED <<proc, now, dbVars, reqs>>

\* The setInterval callback: delete every entry whose window has elapsed.
Sweep ==
  /\ rateLimiters' =
       [k \in {c \in DOMAIN rateLimiters : ~SweepExpired(rateLimiters[c], now)} |->
          rateLimiters[k]]
  /\ rateLimiters' # rateLimiters
  /\ UNCHANGED <<proc, now, rlStatus, refWindow, traffic, pipe, dbVars, reqs>>

(***************************************************************************)
(* THE MIDDLEWARE CHAIN  (server.js 196-228)                               *)
(***************************************************************************)
Methods == {"GET", "POST", "PUT", "PATCH", "DELETE", "OPTIONS"}
\* The Content-Type header: "" stands for none.
ContentTypes == {"application/json", "application/x-www-form-urlencoded", "text/plain", ""}

\* A request carries a body when its method is one that sends one.
HasBody(method) == method \in {"POST", "PUT", "PATCH"}

\* express.json (server.js 196) parses the body of a request whose content
\* type is application/json; express.urlencoded (197) parses the body of one
\* whose content type is application/x-www-form-urlencoded.
BodyParsed(method, ctype) ==
  HasBody(method) /\ ctype \in {"application/json", "application/x-www-form-urlencoded"}

\* contentType.includes('application/json') (server.js 221)
DeclaresJson(ctype) == ctype = "application/json"

\* The chain before the limiter, for a request of a followed client: the body
\* parsers (196-197), the origin middleware, which answers OPTIONS itself
\* (199-216), and the content-type guard (218-226); a request they let
\* through is handed to perClientRateLimit (228).
Receive(c, method, ctype, authorization) ==
  /\ c \in DOMAIN pipe
  /\ pipe[c].stage # "limiter"
  /\ LET q == [method |-> method, ctype |-> ctype,
               parsed |-> BodyParsed(method, ctype), counted |-> FALSE,
               stage |-> "done", status |-> 0]
     IN pipe' = [pipe EXCEPT ![c] =
          IF method = "OPTIONS"
            THEN [q EXCEPT !.status = IF authorization THEN 204 ELSE 401]
          ELSE IF HasBody(method) /\ ~DeclaresJson(ctype)
            THEN [q EXCEPT !.status = 415]
          ELSE [q EXCEPT !.stage = "limiter"]]
  /\ UNCHANGED <<proc, now, rateLimiters, rlStatus, refWindow, traffic, dbVars, reqs>>

\* Time passes up to the next moment of a burst.
ClockToBoundary ==
  /\ \E t \in BurstTimes :
       /\ t > now
       /\ \A u \in BurstTimes : u > now => t <= u
       /\ now' = t
  /\ UNCHANGED <<proc, rateLimiters, rlStatus, refWindow, traffic, pipe, dbVars, reqs>>

\* Time passes.
ClockAdvance ==
  /\ now < MaxTicks * SWEEP_INTERVAL_MS
  /\ now' = now + SWEEP_INTERVAL_MS
  /\ UNCHANGED <<proc, rateLimiters, rlStatus, refWindow, traffic, pipe, dbVars, reqs>>

(***************************************************************************)
(* STORAGE  (server.js 36-128)                                             *)
(***************************************************************************)
\* Caps on the ids AUTOINCREMENT gives out per table.
MaxUsers == 3
MaxCourses == 1
MaxLessons == 1
MaxEnrollments == 2
MaxProgress == 2
\* The values new Date() takes when a completion is stamped are 1..MaxStamp.
MaxStamp == 2

Slots == {1, 2}
Roles == {"instructor", "student"}
Tables == {"users", "courses", "lessons", "enrollments", "progress"}

\* A column that holds SQL NULL / a body field that is undefined.
NullTime == 0
\* A field of a PUT body is <<>> when undefined and <<value>> when supplied.

\* The row of table t with primary key id, as SELECT * returns it.
Row(t, id) == [id |-> id] @@ t[id]

\* dbAsync.get(... WHERE id = ?): <<row>>, or <<>> when there is none.
GetById(t, id) == IF id \in DOMAIN t THEN <<Row(t, id)>> ELSE <<>>

\* The columns in cols of a loaded row: a handler keeps the whole row in a
\* local, and the local holds here the columns the handler reads from it.
Columns(got, cols) ==
  IF got = <<>> THEN <<>> ELSE <<[c \in cols |-> got[1][c]]>>

CourseCols == {"id", "instructor_id"}
LessonCols == {"id", "course_id"}
EnrollmentCols == {"id"}
ProgressCols == {"id", "completed", "completed_at"}
UserCols == {"id", "role", "password_hash"}

\* INSERT: the table with the new row under key id.
Inserted(t, id, row) == [k \in DOMAIN t \cup {id} |-> IF k = id THEN row ELSE t[k]]

\* DELETE: the table without the rows whose keys are in ids.
Deleted(t, ids) == [k \in DOMAIN t \ ids |-> t[k]]

\* The next AUTOINCREMENT id of a table.
LastID(name) == sqlite_sequence[name] + 1

\* ids of the rows of a table satisfying a test on a column
LessonsOfCourses(cs) == {l \in DOMAIN lessons : lessons[l].course_id \in cs}
EnrollmentsOfCourses(cs) == {e \in DOMAIN enrollments : enrollments[e].course_id \in cs}
ProgressOfLessons(ls) == {p \in DOMAIN progress : progress[p].lesson_id \in ls}

\* SELECT id FROM enrollments WHERE student_id = ? AND course_id = ?
EnrollmentOf(student, course) ==
  {e \in DOMAIN enrollments :
     enrollments[e].student_id = student /\ enrollments[e].course_id = course}

\* SELECT * FROM progress WHERE student_id = ? AND lesson_id = ?
ProgressOf(student, lesson) ==
  {p \in DOMAIN progress :
     progress[p].student_id = student /\ progress[p].lesson_id = lesson}

\* SELECT id FROM users WHERE email = ?
UserByEmail(email) == {u \in DOMAIN users : users[u].email = email}

\* The one row of a table among ids (UNIQUE makes it at most one), as <<row>> or <<>>.
OneRow(t, ids) == IF ids = {} THEN <<>> ELSE <<Row(t, CHOOSE k \in ids : TRUE)>>

(***************************************************************************)
(* REQUESTS, TOKENS AND THE ROLE GATE  (server.js 231-281)                 *)
(***************************************************************************)
AuthOps == {"register", "login"}
InstructorOps == {"post_course", "put_course", "delete_course",
                  "post_lesson", "put_lesson", "delete_lesson"}
StudentOps == {"post_enrollment", "delete_enrollment", "post_progress"}

\* The GET routes: those open to both roles, and those of students.
ReadOps == {"get_courses", "get_course", "get_lessons", "get_lesson"}
StudentReadOps == {"get_enrollments", "get_course_progress"}
\* Every route that has authenticateToken in its chain.
ProtectedOps == InstructorOps \cup StudentOps \cup ReadOps \cup StudentReadOps

\* requireRole(...roles) of each route that has one
RouteRoles(op) ==
  IF op \in InstructorOps THEN {"instructor"}
  ELSE IF op \in StudentOps \cup StudentReadOps THEN {"student"}
  ELSE Roles

\* The first storage call each handler awaits.
FirstCall(op) ==
  CASE op \in {"register", "login"} -> "get_user"
    [] op = "post_course" -> "insert"
    [] op \in {"put_course", "delete_course", "post_lesson", "post_enrollment"} -> "get_course"
    [] op \in {"put_lesson", "delete_lesson", "post_progress"} -> "get_lesson"
    [] op \in {"delete_enrollment", "get_course_progress"} -> "get_enrollment"

\* What the Authorization header carries: nothing, a token that jwt.verify
\* rejects (malformed or wrongly signed), one that has expired, or a payload
\* signed by this server.
NoToken == [kind |-> "none", userId |-> 0, role |-> ""]
BadToken == [kind |-> "invalid", userId |-> 0, role |-> ""]
Signed(userId, role) == [kind |-> "signed", userId |-> userId, role |-> role]
Expired(t) == [t EXCEPT !.kind = "expired"]

\* req.user before authenticateToken has set it
NoUser == [id |-> 0, role |-> ""]

NoAudit == [user_id |-> 0, action |-> "", resource_type |-> "", resource_id |-> 0]

Idle ==
  [op |-> "none", pc |-> "idle", tok |-> NoToken, valid |-> TRUE, id |-> 0,
   body |-> <<>>, user |-> NoUser, course |-> <<>>, lesson |-> <<>>,
   enrollment |-> <<>>, existing |-> <<>>, result |-> 0, audit |-> NoAudit,
   status |-> 0, out |-> <<>>, wrote |-> {}, pre |-> 0, stored |-> ""]

\* normalizeEmail() of express-validator with its default options: the whole
\* address in lower case.
normalizeEmail(email) == IF email = "A@X.com" THEN "a@x.com" ELSE email

\* instructor_id of the course with this id, 0 when there is none
OwnerOfCourse(c) == IF c \in DOMAIN courses THEN courses[c].instructor_id ELSE 0

\* What a request addresses, as the tables hold it when the request arrives:
\* the user that has the email, the registration that inserted it having been
\* answered (register), the enrollment of the student in the course (POST
\* enrollment), the owner of the course, or of the lesson's
\* course (the instructor routes that name one); 0 when there is none.
Addressed(op, tok, in) ==
  CASE op = "register" ->
         LET us == {u \in DOMAIN users :
                      /\ users[u].email = normalizeEmail(in.body.email)
                      /\ \A s \in DOMAIN reqs :
                           ~(/\ reqs[s].pc \notin {"idle", "done"}
                             /\ reqs[s].op = "register"
                             /\ reqs[s].result = u)}
         IN IF us = {} THEN 0 ELSE CHOOSE u \in us : TRUE
    [] op = "post_enrollment" ->
         LET es == {e \in DOMAIN enrollments :
                      /\ enrollments[e].student_id = tok.userId
                      /\ enrollments[e].course_id = in.id}
         IN IF es = {} THEN 0 ELSE CHOOSE e \in es : TRUE
    [] op \in {"put_course", "delete_course", "post_lesson"} -> OwnerOfCourse(in.id)
    [] op \in {"put_lesson", "delete_lesson"} ->
         IF in.id \in DOMAIN lessons THEN OwnerOfCourse(lessons[in.id].course_id) ELSE 0
    [] OTHER -> 0

\* A request as it enters its route: op, the token presented, whether the
\* route's express-validator chain accepts it, the id it names and its body.
\* The fields wrote, pre and stored are history: the tables the handler has
\* changed, what the request addresses as it stood on arrival (Addressed), and
\* the role the users table held at the handler's lookup.
NewRequest(op, tok, in) ==
  [Idle EXCEPT !.op = op, !.pc = "arrived", !.tok = tok, !.valid = in.valid,
               !.id = in.id, !.body = in.body, !.pre = Addressed(op, tok, in)]

\* res.status(status).json(out): the handler is finished.
Respond(q, status, out) == [q EXCEPT !.pc = "done", !.status = status, !.out = out]

\* The handler awaits the storage call named call.
Await(q, call) == [q EXCEPT !.pc = call]

\* Variant: maxAge is not enforced, and an expired token goes on to the lookup.
TokenVerifies_NoMaxAge(tok) ==
  tok.kind \in {"signed", "expired"} /\ tok.userId # 0 /\ tok.role # ""

\* jwt.verify(token, JWT_SECRET, ...) and the payload test (server.js 235-247):
\* TRUE when the request goes on to the user lookup.
TokenVerifies(tok) == tok.kind = "signed" /\ tok.userId # 0 /\ tok.role # ""

\* Variant: the gate trusts the role embedded in the token.
GateRole_FromToken(q) == q.tok.role

\* The role requireRole tests (server.js 267): that of the row authenticateToken loaded.
GateRole(q) == q.user.role

\* requireRole(...roles) on the request (server.js 265-272)
RolePasses(q) == q.user.id # 0 /\ GateRole(q) \in RouteRoles(q.op)

\* The sanitizers of the route's validation chain (server.js 302, 342)
Sanitized(q) ==
  IF q.op \in AuthOps THEN [q EXCEPT !.body.email = normalizeEmail(@)] ELSE q

\* validate (server.js 275-281), then the handler up to its first await
Validate(q) ==
  IF ~q.valid THEN Respond(q, 400, <<>>) ELSE Await(Sanitized(q), FirstCall(q.op))

InFlight(r) == reqs[r].pc \notin {"idle", "done"}

\* A request arrives and takes the first slot with no request in flight; the
\* slots keep a finished request only until the next one arrives, and
\* audit_log keeps the rows of the requests in the slots.  The auth routes go
\* to their validators; every other route goes through authenticateToken up
\* to its user lookup.
Arrive(r, op, tok, in) ==
  /\ proc.listening
  /\ ~InFlight(r)
  /\ \A s \in Slots : s < r => InFlight(s)
  /\ LET q == NewRequest(op, tok, in)
         arrived == IF op \in AuthOps THEN Validate(q)
                    ELSE IF ~TokenVerifies(tok) THEN Respond(q, 401, <<>>)
                    ELSE Await(q, "auth_lookup")
     IN reqs' = [s \in Slots |->
                   IF s = r THEN arrived ELSE IF InFlight(s) THEN reqs[s] ELSE Idle]
  /\ audit_log' = SelectSeq(audit_log, LAMBDA e : InFlight(e.req))
  /\ UNCHANGED <<proc, rlVars, foreign_keys, users, courses, lessons, enrollments, progress,
                 sqlite_sequence, tokens>>

\* Variant: the validators answer before requireRole does.
AuthLookup_ValidatesFirst(r) ==
  /\ reqs[r].pc = "auth_lookup"
  /\ LET q == reqs[r]
         found == q.tok.userId \in DOMAIN users
         q1 == [q EXCEPT !.user = [id |-> q.tok.userId,
                                   role |-> users[q.tok.userId].role],
                         !.stored = users[q.tok.userId].role]
     IN reqs' = [reqs EXCEPT ![r] =
          IF ~found THEN Respond(q, 401, <<>>)
          ELSE IF ~q1.valid THEN Respond(q1, 400, <<>>)
          ELSE IF ~RolePasses(q1) THEN Respond(q1, 403, <<>>)
          ELSE Validate(q1)]
  /\ UNCHANGED <<proc, rlVars, dbVars>>

\* authenticateToken resumes with the user row (server.js 249-256), then
\* requireRole and validate run, then the handler up to its first await.
AuthLookup(r) ==
  /\ reqs[r].pc = "auth_lookup"
  /\ LET q == reqs[r]
         found == q.tok.userId \in DOMAIN users
         q1 == [q EXCEPT !.user = [id |-> q.tok.userId,
                                   role |-> users[q.tok.userId].role],
                         !.stored = users[q.tok.userId].role]
     IN reqs' = [reqs EXCEPT ![r] =
          IF ~found THEN Respond(q, 401, <<>>)
          ELSE IF ~RolePasses(q1) THEN Respond(q1, 403, <<>>)
          ELSE Validate(q1)]
  /\ UNCHANGED <<proc, rlVars, dbVars>>

\* The role column of a user is rewritten in the database file by something
\* other than this API (no route updates users); the CHECK constraint of the
\* column keeps it one of the two roles.
StoreRoleChange(u, role) ==
  /\ u \in DOMAIN users
  /\ role \in Roles
  /\ users[u].role # role
  /\ users' = [users EXCEPT ![u].role = role]
  /\ UNCHANGED <<proc, rlVars, foreign_keys, courses, lessons, enrollments, progress,
                 audit_log, sqlite_sequence, tokens, reqs>>

(***************************************************************************)
(* AUDIT LOGGING  (server.js 166-175)                                      *)
(***************************************************************************)
Set(r, q) == reqs' = [reqs EXCEPT ![r] = q]

\* The handler has changed table t.
Wrote(q, t) == [q EXCEPT !.wrote = @ \cup {t}]

\* The statement built from req.body has run: the handler reads the body no more.
BodyUsed(q) == [q EXCEPT !.body = <<>>]

\* await auditLog(userId, action, resourceType, resourceId, req.ip): the
\* INSERT INTO audit_log is issued and the handler waits for auditLog to return.
CallAudit(q, userId, action, resourceType, resourceId) ==
  [q EXCEPT !.pc = "audit",
            !.audit = [user_id |-> userId, action |-> action,
                       resource_type |-> resourceType, resource_id |-> resourceId]]

\* jwt.sign({userId, role}, ...) in register and login
SignedFor(q) ==
  IF q.op = "register" THEN Signed(q.result, q.body.role)
  ELSE Signed(q.user.id, q.user.role)

\* What the handler does once auditLog has returned, up to its next await.
AfterAudit(q) ==
  CASE q.op = "register" ->
         Respond(q, 201, <<[token |-> SignedFor(q), id |-> q.result,
                            email |-> q.body.email, role |-> q.body.role]>>)
    [] q.op = "login" /\ q.audit.action = "LOGIN_FAILED" -> Respond(q, 401, <<>>)
    [] q.op = "login" /\ q.audit.action # "LOGIN_FAILED" ->
         Respond(q, 200, <<[token |-> SignedFor(q), id |-> q.user.id,
                            email |-> q.body.email, role |-> q.user.role]>>)
    [] q.op \in {"delete_course", "delete_lesson", "delete_enrollment"} ->
         Respond(q, 204, <<>>)
    [] OTHER -> Await(q, "reload")

\* Whether the handler signs a token when auditLog has returned.
SignsToken(q) ==
  \/ q.op = "register"
  \/ q.op = "login" /\ q.audit.action # "LOGIN_FAILED"

\* Variant: auditLog has no try/catch, so a rejected INSERT reaches the
\* handler's catch block, which answers 500.
auditLog_Throws(r, ok) ==
  /\ reqs[r].pc = "audit"
  /\ audit_log' = IF ok THEN Append(audit_log, [req |-> r] @@ reqs[r].audit)
                  ELSE audit_log
  /\ tokens' = IF ok /\ SignsToken(reqs[r]) THEN tokens \cup {SignedFor(reqs[r])}
               ELSE tokens
  /\ Set(r, IF ok THEN AfterAudit(Wrote(reqs[r], "audit_log"))
            ELSE Respond(reqs[r], 500, <<>>))
  /\ UNCHANGED <<proc, rlVars, foreign_keys, users, courses, lessons, enrollments, progress,
                 sqlite_sequence>>

\* auditLog: the INSERT resolves (ok) or rejects; a rejection is caught and
\* logged to the console, and either way the awaiting handler goes on.
auditLog(r, ok) ==
  /\ reqs[r].pc = "audit"
  /\ audit_log' = IF ok THEN Append(audit_log, [req |-> r] @@ reqs[r].audit)
                  ELSE audit_log
  /\ tokens' = IF SignsToken(reqs[r]) THEN tokens \cup {SignedFor(reqs[r])} ELSE tokens
  /\ Set(r, AfterAudit(IF ok THEN Wrote(reqs[r], "audit_log") ELSE reqs[r]))
  /\ UNCHANGED <<proc, rlVars, foreign_keys, users, courses, lessons, enrollments, progress,
                 sqlite_sequence>>

(***************************************************************************)
(* COURSE ENDPOINTS  (server.js 440-550)                                   *)
(***************************************************************************)
\* The fields a PUT body supplies (those that are not undefined).
Supplied(body) == {f \in DOMAIN body : body[f] # <<>>}

\* UPDATE ... SET <the supplied fields> on one row
Updated(row, body) ==
  [f \in DOMAIN row |-> IF f \in Supplied(body) THEN body[f][1] ELSE row[f]]

\* sqlite_sequence after an AUTOINCREMENT insert into table name
Sequenced(name) == [sqlite_sequence EXCEPT ![name] = @ + 1]

\* ON DELETE CASCADE from the courses in cs, when the engine enforces it.
CascadeLessons(cs) == IF foreign_keys THEN LessonsOfCourses(cs) ELSE {}
CascadeEnrollments(cs) == IF foreign_keys THEN EnrollmentsOfCourses(cs) ELSE {}
CascadeProgress(ls) == IF foreign_keys THEN ProgressOfLessons(ls) ELSE {}

\* POST /api/courses: INSERT INTO courses resolves (server.js 450-455)
PostCourse_Insert(r) ==
  /\ reqs[r].pc = "insert" /\ reqs[r].op = "post_course"
  /\ LET q0 == reqs[r]
         q == BodyUsed(q0)
         id == LastID("courses")
     IN /\ courses' = Inserted(courses, id,
                        [title |-> q0.body.title, description |-> q0.body.description,
                         instructor_id |-> q.user.id])
        /\ sqlite_sequence' = Sequenced("courses")
        /\ Set(r, CallAudit(Wrote([q EXCEPT !.result = id], "courses"),
                            q.user.id, "COURSE_CREATED", "course", id))
  /\ UNCHANGED <<proc, rlVars, foreign_keys, users, lessons, enrollments, progress, audit_log, tokens>>

\* The ownership test of the course routes (server.js 482, 536, 621)
OwnsCourse(q, course) == course.instructor_id = q.user.id

\* Variant: a course of another instructor is answered like a missing one.
PutCourse_GetCourse_Hiding(r) ==
  /\ reqs[r].pc = "get_course" /\ reqs[r].op = "put_course"
  /\ LET q == [reqs[r] EXCEPT !.course = Columns(GetById(courses, reqs[r].id), CourseCols)]
     IN Set(r, IF q.course = <<>> THEN Respond(q, 404, <<>>)
               ELSE IF ~OwnsCourse(q, q.course[1]) THEN Respond(q, 404, <<>>)
               ELSE IF Supplied(q.body) = {} THEN Respond(q, 400, <<>>)
               ELSE Await(q, "update"))
  /\ UNCHANGED <<proc, rlVars, dbVars>>

\* Variant: the handler does not test updates.length, and a body with no
\* field goes on to an UPDATE that sets updated_at alone.
PutCourse_GetCourse_NoFieldCheck(r) ==
  /\ reqs[r].pc = "get_course" /\ reqs[r].op = "put_course"
  /\ LET q == [reqs[r] EXCEPT !.course = Columns(GetById(courses, reqs[r].id), CourseCols)]
     IN Set(r, IF q.course = <<>> THEN Respond(q, 404, <<>>)
               ELSE IF ~OwnsCourse(q, q.course[1]) THEN Respond(q, 403, <<>>)
               ELSE Await(q, "update"))
  /\ UNCHANGED <<proc, rlVars, dbVars>>

\* PUT /api/courses/:id: the SELECT resolves; 404, 403 and 400 (server.js 476-506)
PutCourse_GetCourse(r) ==
  /\ reqs[r].pc = "get_course" /\ reqs[r].op = "put_course"
  /\ LET q == [reqs[r] EXCEPT !.course = Columns(GetById(courses, reqs[r].id), CourseCols)]
     IN Set(r, IF q.course = <<>> THEN Respond(q, 404, <<>>)
               ELSE IF ~OwnsCourse(q, q.course[1]) THEN Respond(q, 403, <<>>)
               ELSE IF Supplied(q.body) = {} THEN Respond(q, 400, <<>>)
               ELSE Await(q, "update"))
  /\ UNCHANGED <<proc, rlVars, dbVars>>

\* Variant: the handler calls auditLog before it has run its UPDATE.
PutCourse_Update_AuditsFirst(r) ==
  /\ reqs[r].pc = "update" /\ reqs[r].op = "put_course"
  /\ Set(r, CallAudit(reqs[r], reqs[r].user.id, "COURSE_UPDATED", "course", reqs[r].id))
  /\ UNCHANGED <<proc, rlVars, dbVars>>

\* PUT /api/courses/:id: the UPDATE resolves (server.js 506-511)
PutCourse_Update(r) ==
  /\ reqs[r].pc = "update" /\ reqs[r].op = "put_course"
  /\ LET q0 == reqs[r]
         q == BodyUsed(q0)
         hit == q.id \in DOMAIN courses
     IN /\ courses' = IF hit THEN [courses EXCEPT ![q.id] = Updated(@, q0.body)]
                      ELSE courses
        /\ Set(r, CallAudit(IF hit THEN Wrote(q, "courses") ELSE q,
                            q.user.id, "COURSE_UPDATED", "course", q.id))
  /\ UNCHANGED <<proc, rlVars, foreign_keys, users, lessons, enrollments, progress, audit_log,
                 sqlite_sequence, tokens>>

\* DELETE /api/courses/:id: the SELECT resolves; 404 and 403 (server.js 530-540)
DeleteCourse_GetCourse(r) ==
  /\ reqs[r].pc = "get_course" /\ reqs[r].op = "delete_course"
  /\ LET q == [reqs[r] EXCEPT !.course = Columns(GetById(courses, reqs[r].id), CourseCols)]
     IN Set(r, IF q.course = <<>> THEN Respond(q, 404, <<>>)
               ELSE IF ~OwnsCourse(q, q.course[1]) THEN Respond(q, 403, <<>>)
               ELSE Await(q, "delete"))
  /\ UNCHANGED <<proc, rlVars, dbVars>>

\* DELETE /api/courses/:id: the DELETE resolves (server.js 540-542); the rows
\* that reference the course go with it when foreign keys are enforced.
DeleteCourse_Delete(r) ==
  /\ reqs[r].pc = "delete" /\ reqs[r].op = "delete_course"
  /\ LET q == reqs[r]
         cs == {q.id} \cap DOMAIN courses
         ls == CascadeLessons(cs)
         w == (IF cs # {} THEN {"courses"} ELSE {})
              \cup (IF ls # {} THEN {"lessons"} ELSE {})
              \cup (IF CascadeEnrollments(cs) # {} THEN {"enrollments"} ELSE {})
              \cup (IF CascadeProgress(ls) # {} THEN {"progress"} ELSE {})
     IN /\ courses' = Deleted(courses, cs)
        /\ lessons' = Deleted(lessons, ls)
        /\ enrollments' = Deleted(enrollments, CascadeEnrollments(cs))
        /\ progress' = Deleted(progress, CascadeProgress(ls))
        /\ Set(r, CallAudit([q EXCEPT !.wrote = @ \cup w],
                            q.user.id, "COURSE_DELETED", "course", q.id))
  /\ UNCHANGED <<proc, rlVars, foreign_keys, users, audit_log, sqlite_sequence, tokens>>

(***************************************************************************)
(* LESSON ENDPOINTS  (server.js 605-736)                                   *)
(***************************************************************************)
\* POST /api/courses/:courseId/lessons: the SELECT resolves (server.js 615-627)
PostLesson_GetCourse(r) ==
  /\ reqs[r].pc = "get_course" /\ reqs[r].op = "post_lesson"
  /\ LET q == [reqs[r] EXCEPT !.course = Columns(GetById(courses, reqs[r].id), CourseCols)]
     IN Set(r, IF q.course = <<>> THEN Respond(q, 404, <<>>)
               ELSE IF ~OwnsCourse(q, q.course[1]) THEN Respond(q, 403, <<>>)
               ELSE Await(q, "insert"))
  /\ UNCHANGED <<proc, rlVars, dbVars>>

\* POST /api/courses/:courseId/lessons: the INSERT resolves, or rejects on the
\* course_id foreign key and the catch answers 500 (server.js 627-632, 637-640)
PostLesson_Insert(r) ==
  /\ reqs[r].pc = "insert" /\ reqs[r].op = "post_lesson"
  /\ LET q0 == reqs[r]
         q == BodyUsed(q0)
         id == LastID("lessons")
         rejects == foreign_keys /\ q.id \notin DOMAIN courses
     IN IF rejects
          THEN /\ Set(r, Respond(q, 500, <<>>))
               /\ UNCHANGED <<lessons, sqlite_sequence>>
          ELSE /\ lessons' = Inserted(lessons, id,
                               [course_id |-> q.id, title |-> q0.body.title,
                                content |-> q0.body.content,
                                order_index |-> q0.body.order_index])
               /\ sqlite_sequence' = Sequenced("lessons")
               /\ Set(r, CallAudit(Wrote([q EXCEPT !.result = id], "lessons"),
                                   q.user.id, "LESSON_CREATED", "lesson", id))
  /\ UNCHANGED <<proc, rlVars, foreign_keys, users, courses, enrollments, progress, audit_log, tokens>>

\* PUT and DELETE /api/lessons/:id: the lesson SELECT resolves (server.js 654-660,
\* 714-720)
Lesson_GetLesson(r) ==
  /\ reqs[r].pc = "get_lesson" /\ reqs[r].op \in {"put_lesson", "delete_lesson"}
  /\ LET q == [reqs[r] EXCEPT !.lesson = Columns(GetById(lessons, reqs[r].id), LessonCols)]
     IN Set(r, IF q.lesson = <<>> THEN Respond(q, 404, <<>>)
               ELSE Await(q, "get_course"))
  /\ UNCHANGED <<proc, rlVars, dbVars>>

\* course.instructor_id !== req.user.id where course may be undefined: reading
\* a property of undefined throws, and the handler's catch answers 500.
LessonOwnerCheck(q, onward) ==
  IF q.course = <<>> THEN Respond(q, 500, <<>>)
  ELSE IF ~OwnsCourse(q, q.course[1]) THEN Respond(q, 403, <<>>)
  ELSE onward

\* PUT /api/lessons/:id: the parent course SELECT resolves (server.js 660-690)
PutLesson_GetCourse(r) ==
  /\ reqs[r].pc = "get_course" /\ reqs[r].op = "put_lesson"
  /\ LET q == [reqs[r] EXCEPT !.course = Columns(GetById(courses, reqs[r].lesson[1].course_id), CourseCols)]
     IN Set(r, LessonOwnerCheck(q,
                 IF Supplied(q.body) = {} THEN Respond(q, 400, <<>>)
                 ELSE Await(q, "update")))
  /\ UNCHANGED <<proc, rlVars, dbVars>>

\* PUT /api/lessons/:id: the UPDATE resolves (server.js 690-695)
PutLesson_Update(r) ==
  /\ reqs[r].pc = "update" /\ reqs[r].op = "put_lesson"
  /\ LET q0 == reqs[r]
         q == BodyUsed(q0)
         hit == q.id \in DOMAIN lessons
     IN /\ lessons' = IF hit THEN [lessons EXCEPT ![q.id] = Updated(@, q0.body)]
                      ELSE lessons
        /\ Set(r, CallAudit(IF hit THEN Wrote(q, "lessons") ELSE q,
                            q.user.id, "LESSON_UPDATED", "lesson", q.id))
  /\ UNCHANGED <<proc, rlVars, foreign_keys, users, courses, enrollments, progress, audit_log,
                 sqlite_sequence, tokens>>

\* DELETE /api/lessons/:id: the parent course SELECT resolves (server.js 720-726)
DeleteLesson_GetCourse(r) ==
  /\ reqs[r].pc = "get_course" /\ reqs[r].op = "delete_lesson"
  /\ LET q == [reqs[r] EXCEPT !.course = Columns(GetById(courses, reqs[r].lesson[1].course_id), CourseCols)]
     IN Set(r, LessonOwnerCheck(q, Await(q, "delete")))
  /\ UNCHANGED <<proc, rlVars, dbVars>>

\* DELETE /api/lessons/:id: the DELETE resolves (server.js 726-728)
DeleteLesson_Delete(r) ==
  /\ reqs[r].pc = "delete" /\ reqs[r].op = "delete_lesson"
  /\ LET q == reqs[r]
         ls == {q.id} \cap DOMAIN lessons
         w == (IF ls # {} THEN {"lessons"} ELSE {})
              \cup (IF CascadeProgress(ls) # {} THEN {"progress"} ELSE {})
     IN /\ lessons' = Deleted(lessons, ls)
        /\ progress' = Deleted(progress, CascadeProgress(ls))
        /\ Set(r, CallAudit([q EXCEPT !.wrote = @ \cup w],
                            q.user.id, "LESSON_DELETED", "lesson", q.id))
  /\ UNCHANGED <<proc, rlVars, foreign_keys, users, courses, enrollments, audit_log,
                 sqlite_sequence, tokens>>

(***************************************************************************)
(* ENROLLMENT ENDPOINTS  (server.js 739-833)                               *)
(***************************************************************************)
\* POST /api/enrollments: the course SELECT resolves (server.js 748-754)
PostEnrollment_GetCourse(r) ==
  /\ reqs[r].pc = "get_course" /\ reqs[r].op = "post_enrollment"
  /\ LET q == [reqs[r] EXCEPT !.course = Columns(GetById(courses, reqs[r].id), CourseCols)]
     IN Set(r, IF q.course = <<>> THEN Respond(q, 404, <<>>)
               ELSE Await(q, "get_enrollment"))
  /\ UNCHANGED <<proc, rlVars, dbVars>>

\* Variant: the handler goes to its INSERT whatever the pre-check finds.
PostEnrollment_GetEnrollment_NoCheck(r) ==
  /\ reqs[r].pc = "get_enrollment" /\ reqs[r].op = "post_enrollment"
  /\ Set(r, Await(reqs[r], "insert"))
  /\ UNCHANGED <<proc, rlVars, dbVars>>

\* POST /api/enrollments: the pre-check SELECT resolves (server.js 754-763)
PostEnrollment_GetEnrollment(r) ==
  /\ reqs[r].pc = "get_enrollment" /\ reqs[r].op = "post_enrollment"
  /\ LET q == [reqs[r] EXCEPT
                 !.enrollment = Columns(OneRow(enrollments, EnrollmentOf(reqs[r].user.id, reqs[r].id)), EnrollmentCols)]
     IN Set(r, IF q.enrollment # <<>> THEN Respond(q, 409, <<>>)
               ELSE Await(q, "insert"))
  /\ UNCHANGED <<proc, rlVars, dbVars>>

\* POST /api/enrollments: the INSERT resolves, or rejects on UNIQUE(student_id,
\* course_id) or on the course_id foreign key and the catch answers 500
\* (server.js 763-768, 773-776)
PostEnrollment_Insert(r) ==
  /\ reqs[r].pc = "insert" /\ reqs[r].op = "post_enrollment"
  /\ LET q == reqs[r]
         id == LastID("enrollments")
         rejects == \/ EnrollmentOf(q.user.id, q.id) # {}
                    \/ foreign_keys /\ q.id \notin DOMAIN courses
     IN IF rejects
          THEN /\ Set(r, Respond(q, 500, <<>>))
               /\ UNCHANGED <<enrollments, sqlite_sequence>>
          ELSE /\ enrollments' = Inserted(enrollments, id,
                                   [student_id |-> q.user.id, course_id |-> q.id])
               /\ sqlite_sequence' = Sequenced("enrollments")
               /\ Set(r, CallAudit(Wrote([q EXCEPT !.result = id], "enrollments"),
                                   q.user.id, "ENROLLMENT_CREATED", "enrollment", id))
  /\ UNCHANGED <<proc, rlVars, foreign_keys, users, courses, lessons, progress, audit_log, tokens>>

\* Variant: the SELECT is WHERE id = ? alone.
DeleteEnrollment_GetEnrollment_AnyStudent(r) ==
  /\ reqs[r].pc = "get_enrollment" /\ reqs[r].op = "delete_enrollment"
  /\ LET q == [reqs[r] EXCEPT
                 !.enrollment = Columns(GetById(enrollments, reqs[r].id), EnrollmentCols)]
     IN Set(r, IF q.enrollment = <<>> THEN Respond(q, 404, <<>>)
               ELSE Await(q, "delete"))
  /\ UNCHANGED <<proc, rlVars, dbVars>>

\* DELETE /api/enrollments/:id: SELECT ... WHERE id = ? AND student_id = ?
\* resolves (server.js 814-823)
DeleteEnrollment_GetEnrollment(r) ==
  /\ reqs[r].pc = "get_enrollment" /\ reqs[r].op = "delete_enrollment"
  /\ LET mine == {e \in {reqs[r].id} \cap DOMAIN enrollments :
                    enrollments[e].student_id = reqs[r].user.id}
         q == [reqs[r] EXCEPT !.enrollment = Columns(OneRow(enrollments, mine), EnrollmentCols)]
     IN Set(r, IF q.enrollment = <<>> THEN Respond(q, 404, <<>>)
               ELSE Await(q, "delete"))
  /\ UNCHANGED <<proc, rlVars, dbVars>>

\* DELETE /api/enrollments/:id: DELETE ... WHERE id = ? resolves (server.js 823-825)
DeleteEnrollment_Delete(r) ==
  /\ reqs[r].pc = "delete" /\ reqs[r].op = "delete_enrollment"
  /\ LET q == reqs[r]
         es == {q.id} \cap DOMAIN enrollments
     IN /\ enrollments' = Deleted(enrollments, es)
        /\ Set(r, CallAudit(IF es # {} THEN Wrote(q, "enrollments") ELSE q,
                            q.user.id, "ENROLLMENT_DELETED", "enrollment", q.id))
  /\ UNCHANGED <<proc, rlVars, foreign_keys, users, courses, lessons, progress, audit_log,
                 sqlite_sequence, tokens>>

(***************************************************************************)
(* PROGRESS TRACKING  (server.js 836-895)                                  *)
(***************************************************************************)
\* The readings new Date() can give next: the clock does not run backwards, so
\* none is earlier than a stamp already stored.
Stamps == {t \in 1..MaxStamp : \A p \in DOMAIN progress : progress[p].completed_at <= t}

\* completed ? new Date().toISOString() : null, with t the clock's reading
CompletedAt(completed, t) == IF completed THEN t ELSE NullTime

\* POST /api/progress: the lesson SELECT resolves (server.js 846-852)
PostProgress_GetLesson(r) ==
  /\ reqs[r].pc = "get_lesson" /\ reqs[r].op = "post_progress"
  /\ LET q == [reqs[r] EXCEPT !.lesson = Columns(GetById(lessons, reqs[r].id), LessonCols)]
     IN Set(r, IF q.lesson = <<>> THEN Respond(q, 404, <<>>)
               ELSE Await(q, "get_enrollment"))
  /\ UNCHANGED <<proc, rlVars, dbVars>>

\* Variant: the handler goes on whether or not the student is enrolled.
PostProgress_GetEnrollment_NoGate(r) ==
  /\ reqs[r].pc = "get_enrollment" /\ reqs[r].op = "post_progress"
  /\ Set(r, Await(reqs[r], "get_progress"))
  /\ UNCHANGED <<proc, rlVars, dbVars>>

\* POST /api/progress: the enrollment SELECT resolves (server.js 852-861)
PostProgress_GetEnrollment(r) ==
  /\ reqs[r].pc = "get_enrollment" /\ reqs[r].op = "post_progress"
  /\ LET q == [reqs[r] EXCEPT
                 !.enrollment = Columns(OneRow(enrollments,
                                  EnrollmentOf(reqs[r].user.id, reqs[r].lesson[1].course_id)),
                                  EnrollmentCols)]
     IN Set(r, IF q.enrollment = <<>> THEN Respond(q, 403, <<>>)
               ELSE Await(q, "get_progress"))
  /\ UNCHANGED <<proc, rlVars, dbVars>>

\* POST /api/progress: the existing-progress SELECT resolves (server.js 861-875)
PostProgress_GetProgress(r) ==
  /\ reqs[r].pc = "get_progress" /\ reqs[r].op = "post_progress"
  /\ LET q == [reqs[r] EXCEPT
                 !.existing = Columns(OneRow(progress, ProgressOf(reqs[r].user.id, reqs[r].id)),
                                      ProgressCols)]
     IN Set(r, IF q.existing # <<>> THEN Await(q, "update") ELSE Await(q, "insert"))
  /\ UNCHANGED <<proc, rlVars, dbVars>>

\* Variant: the UPDATE sets completed and leaves completed_at as it was.
ProgressUpdated_KeepsStamp(row, completed, t) == [row EXCEPT !.completed = completed]

\* The row an UPDATE progress SET completed = ?, completed_at = ? leaves
ProgressUpdated(row, completed, t) ==
  [row EXCEPT !.completed = completed, !.completed_at = CompletedAt(completed, t)]

\* POST /api/progress: the UPDATE resolves (server.js 869-873, 882); t is the
\* time new Date() read when the statement was issued.
PostProgress_Update(r, t) ==
  /\ reqs[r].pc = "update" /\ reqs[r].op = "post_progress"
  /\ LET q0 == reqs[r]
         q == BodyUsed(q0)
         hit == ProgressOf(q.user.id, q.id)
     IN /\ progress' = [p \in DOMAIN progress |->
                          IF p \in hit
                            THEN ProgressUpdated(progress[p], q0.body.completed, t)
                            ELSE progress[p]]
        /\ Set(r, CallAudit(IF hit # {} THEN Wrote([q EXCEPT !.result = q.existing[1].id], "progress")
                            ELSE [q EXCEPT !.result = q.existing[1].id],
                            q.user.id, "PROGRESS_UPDATED", "progress", q.existing[1].id))
  /\ UNCHANGED <<proc, rlVars, foreign_keys, users, courses, lessons, enrollments, audit_log,
                 sqlite_sequence, tokens>>

\* POST /api/progress: the INSERT resolves, or rejects on UNIQUE(student_id,
\* lesson_id) or on the lesson_id foreign key and the catch answers 500
\* (server.js 875-882, 890-893)
PostProgress_Insert(r, t) ==
  /\ reqs[r].pc = "insert" /\ reqs[r].op = "post_progress"
  /\ LET q0 == reqs[r]
         q == BodyUsed(q0)
         id == LastID("progress")
         rejects == \/ ProgressOf(q.user.id, q.id) # {}
                    \/ foreign_keys /\ q.id \notin DOMAIN lessons
     IN IF rejects
          THEN /\ Set(r, Respond(q, 500, <<>>))
               /\ UNCHANGED <<progress, sqlite_sequence>>
          ELSE /\ progress' = Inserted(progress, id,
                                [student_id |-> q.user.id, lesson_id |-> q.id,
                                 completed |-> q0.body.completed,
                                 completed_at |-> CompletedAt(q0.body.completed, t)])
               /\ sqlite_sequence' = Sequenced("progress")
               /\ Set(r, CallAudit(Wrote([q EXCEPT !.result = id], "progress"),
                                   q.user.id, "PROGRESS_UPDATED", "progress", id))
  /\ UNCHANGED <<proc, rlVars, foreign_keys, users, courses, lessons, enrollments, audit_log, tokens>>

\* GET /api/courses/:courseId/progress: the enrollment SELECT resolves
\* (server.js 904-912); no SELECT on courses precedes it.
GetCourseProgress_GetEnrollment(r) ==
  /\ reqs[r].pc = "get_enrollment" /\ reqs[r].op = "get_course_progress"
  /\ LET q == [reqs[r] EXCEPT
                 !.enrollment = Columns(OneRow(enrollments,
                                  EnrollmentOf(reqs[r].user.id, reqs[r].id)),
                                  EnrollmentCols)]
     IN Set(r, IF q.enrollment = <<>> THEN Respond(q, 403, <<>>)
               ELSE Await(q, "list"))
  /\ UNCHANGED <<proc, rlVars, dbVars>>

\* progress p JOIN lessons l ON p.lesson_id = l.id WHERE p.student_id = ?
\* AND l.course_id = ?
JoinedProgress(student, course) ==
  {p \in DOMAIN progress :
     /\ progress[p].student_id = student
     /\ progress[p].lesson_id \in DOMAIN lessons
     /\ lessons[progress[p].lesson_id].course_id = course}

\* ORDER BY l.order_index ASC: the orders of the rows in ps the engine may
\* return them in (rows of equal order_index in either order).
OrderedByIndex(ps) ==
  {s \in [1..Cardinality(ps) -> ps] :
     \A i, j \in 1..Cardinality(ps) :
       i < j => /\ s[i] # s[j]
                /\ lessons[progress[s[i]].lesson_id].order_index
                     <= lessons[progress[s[j]].lesson_id].order_index}

\* GET /api/courses/:courseId/progress: the joined SELECT resolves and the
\* handler responds with its rows (server.js 913-922)
GetCourseProgress_List(r) ==
  /\ reqs[r].pc = "list" /\ reqs[r].op = "get_course_progress"
  /\ \E s \in OrderedByIndex(JoinedProgress(reqs[r].user.id, reqs[r].id)) :
       Set(r, Respond(reqs[r], 200,
             [i \in DOMAIN s |->
                [id |-> s[i], lesson_id |-> progress[s[i]].lesson_id,
                 completed |-> progress[s[i]].completed,
                 completed_at |-> progress[s[i]].completed_at,
                 title |-> lessons[progress[s[i]].lesson_id].title,
                 order_index |-> lessons[progress[s[i]].lesson_id].order_index]]))
  /\ UNCHANGED <<proc, rlVars, dbVars>>

(***************************************************************************)
(* THE RELOAD BEFORE THE RESPONSE                                          *)
(***************************************************************************)
\* The SELECT each handler awaits after its audit call (server.js 457, 513,
\* 634, 697, 770, 884).
Reloaded(q) ==
  CASE q.op = "post_course" -> GetById(courses, q.result)
    [] q.op = "put_course" -> GetById(courses, q.id)
    [] q.op = "post_lesson" -> GetById(lessons, q.result)
    [] q.op = "put_lesson" -> GetById(lessons, q.id)
    [] q.op = "post_enrollment" -> GetById(enrollments, q.result)
    [] q.op = "post_progress" -> OneRow(progress, ProgressOf(q.user.id, q.id))

\* res.status(201).json(...) of the creating routes, res.json(...) of the others
SuccessStatus(op) ==
  IF op \in {"post_course", "post_lesson", "post_enrollment"} THEN 201 ELSE 200

\* The reload resolves and the handler responds with what it loaded.
Reload(r) ==
  /\ reqs[r].pc = "reload"
  /\ Set(r, Respond(reqs[r], SuccessStatus(reqs[r].op), Reloaded(reqs[r])))
  /\ UNCHANGED <<proc, rlVars, dbVars>>

(***************************************************************************)
(* AUTH ENDPOINTS  (server.js 301-379)                                     *)
(***************************************************************************)
\* bcrypt.hash as an opaque one-way function of the password
BcryptHash(password) == <<"bcrypt", password>>

\* bcrypt.compare(password, hash)
BcryptCompare(password, hash) == BcryptHash(password) = hash

\* Variant: the handler goes on to hash and insert whatever the SELECT finds.
Register_GetUser_NoCheck(r) ==
  /\ reqs[r].pc = "get_user" /\ reqs[r].op = "register"
  /\ Set(r, Await(reqs[r], "hash"))
  /\ UNCHANGED <<proc, rlVars, dbVars>>

\* POST /api/auth/register: the email SELECT resolves (server.js 310-315)
Register_GetUser(r) ==
  /\ reqs[r].pc = "get_user" /\ reqs[r].op = "register"
  /\ LET q == reqs[r]
     IN Set(r, IF UserByEmail(q.body.email) # {} THEN Respond(q, 409, <<>>)
               ELSE Await(q, "hash"))
  /\ UNCHANGED <<proc, rlVars, dbVars>>

\* POST /api/auth/register: bcrypt.hash resolves and the INSERT is issued
Register_Hash(r) ==
  /\ reqs[r].pc = "hash" /\ reqs[r].op = "register"
  /\ Set(r, Await(reqs[r], "insert"))
  /\ UNCHANGED <<proc, rlVars, dbVars>>

\* POST /api/auth/register: the INSERT resolves, or rejects on the UNIQUE email
\* and the catch answers 500 (server.js 317-322, 334-337)
Register_Insert(r) ==
  /\ reqs[r].pc = "insert" /\ reqs[r].op = "register"
  /\ LET q == reqs[r]
         id == LastID("users")
     IN IF UserByEmail(q.body.email) # {}
          THEN /\ Set(r, Respond(q, 500, <<>>))
               /\ UNCHANGED <<users, sqlite_sequence>>
          ELSE /\ users' = Inserted(users, id,
                             [email |-> q.body.email,
                              password_hash |-> BcryptHash(q.body.password),
                              role |-> q.body.role])
               /\ sqlite_sequence' = Sequenced("users")
               /\ Set(r, CallAudit(Wrote([q EXCEPT !.result = id], "users"),
                                   id, "USER_REGISTERED", "user", id))
  /\ UNCHANGED <<proc, rlVars, foreign_keys, courses, lessons, enrollments, progress, audit_log, tokens>>

\* POST /api/auth/login: the user SELECT resolves (server.js 349-355)
Login_GetUser(r) ==
  /\ reqs[r].pc = "get_user" /\ reqs[r].op = "login"
  /\ LET q == [reqs[r] EXCEPT !.existing = Columns(OneRow(users, UserByEmail(reqs[r].body.email)), UserCols)]
     IN Set(r, IF q.existing = <<>> THEN Respond(q, 401, <<>>)
               ELSE Await([q EXCEPT !.user = [id |-> q.existing[1].id,
                                              role |-> q.existing[1].role]], "compare"))
  /\ UNCHANGED <<proc, rlVars, dbVars>>

\* POST /api/auth/login: bcrypt.compare resolves (server.js 355-362)
Login_Compare(r) ==
  /\ reqs[r].pc = "compare" /\ reqs[r].op = "login"
  /\ LET q == reqs[r]
         isValid == BcryptCompare(q.body.password, q.existing[1].password_hash)
     IN Set(r, CallAudit(q, q.user.id,
                         IF isValid THEN "LOGIN_SUCCESS" ELSE "LOGIN_FAILED",
                         "user", q.user.id))
  /\ UNCHANGED <<proc, rlVars, dbVars>>

(***************************************************************************)
(* WHAT THE CLIENTS SEND                                                   *)
(***************************************************************************)
EmptyTable == [k \in {} |-> 0]

RawEmails == {"a@x.com", "A@X.com", "b@x.com"}
\* "pw" is shorter than the 8 characters isLength({min: 8}) asks of a new password.
Passwords == {"password1", "pw"}
PasswordLongEnough(p) == p # "pw"
\* A course or lesson is created with title "t1"; an update may retitle it "t2".
Titles == {"t1"}
NewTitles == {"t2"}
Descriptions == {"d1"}
Contents == {"c1"}
OrderIndexes == {0}

\* <<>> (undefined) or <<v>> for v in S
Optional(S) == {<<>>} \cup {<<v>> : v \in S}

\* The requests sent to each route.  Those to the course, lesson, enrollment
\* and progress routes pass the route's validation chain; a registration
\* passes it when its password is long enough.
Inputs(op) ==
  CASE op = "register" ->
         {[valid |-> PasswordLongEnough(p), id |-> 0,
           body |-> [email |-> e, password |-> p, role |-> ro]] :
            e \in RawEmails, p \in Passwords, ro \in Roles}
    [] op = "login" ->
         {[valid |-> TRUE, id |-> 0, body |-> [email |-> e, password |-> p]] :
            e \in RawEmails, p \in Passwords}
    [] op = "post_course" ->
         {[valid |-> TRUE, id |-> 0, body |-> [title |-> t, description |-> d]] :
            t \in Titles, d \in Descriptions}
    [] op = "put_course" ->
         {[valid |-> TRUE, id |-> i, body |-> [title |-> t, description |-> d]] :
            i \in 1..MaxCourses, t \in Optional(NewTitles), d \in Optional(Descriptions)}
    [] op = "post_lesson" ->
         {[valid |-> TRUE, id |-> i,
           body |-> [title |-> t, content |-> c, order_index |-> o]] :
            i \in 1..MaxCourses, t \in Titles, c \in Contents, o \in OrderIndexes}
    [] op = "put_lesson" ->
         {[valid |-> TRUE, id |-> i,
           body |-> [title |-> t, content |-> c, order_index |-> o]] :
            i \in 1..MaxLessons, t \in Optional(NewTitles), c \in Optional(Contents),
            o \in Optional(OrderIndexes)}
    [] op \in {"delete_course", "post_enrollment"} ->
         {[valid |-> TRUE, id |-> i, body |-> <<>>] : i \in 1..MaxCourses}
    [] op = "delete_lesson" ->
         {[valid |-> TRUE, id |-> i, body |-> <<>>] : i \in 1..MaxLessons}
    [] op = "delete_enrollment" ->
         {[valid |-> TRUE, id |-> i, body |-> <<>>] : i \in 1..MaxEnrollments}
    [] op = "post_progress" ->
         {[valid |-> TRUE, id |-> i, body |-> [completed |-> c]] :
            i \in 1..MaxLessons, c \in BOOLEAN}
    [] op \in {"get_course", "get_lessons", "get_course_progress"} ->
         {[valid |-> TRUE, id |-> i, body |-> <<>>] : i \in 1..MaxCourses}
    [] op = "get_lesson" ->
         {[valid |-> TRUE, id |-> i, body |-> <<>>] : i \in 1..MaxLessons}
    [] op \in {"get_courses", "get_enrollments"} ->
         {[valid |-> TRUE, id |-> 0, body |-> <<>>]}

\* A request the validation chain of its route rejects: an id of 0 where
\* isInt({ min: 1 }) is asked, an empty title where isLength({ min: 1 }) is.
RejectedInputs(op) ==
  IF op = "post_course"
    THEN {[valid |-> FALSE, id |-> 0, body |-> [title |-> "", description |-> "d1"]]}
    ELSE {[valid |-> FALSE, id |-> 0, body |-> <<>>]}

\* The table a route inserts into, and the cap on its ids.
InsertsInto(op) ==
  CASE op = "register" -> "users"
    [] op = "post_course" -> "courses"
    [] op = "post_lesson" -> "lessons"
    [] op = "post_enrollment" -> "enrollments"
    [] op = "post_progress" -> "progress"
    [] OTHER -> "none"

MaxId(name) ==
  CASE name = "users" -> MaxUsers
    [] name = "courses" -> MaxCourses
    [] name = "lessons" -> MaxLessons
    [] name = "enrollments" -> MaxEnrollments
    [] name = "progress" -> MaxProgress

\* A new request of an inserting route is taken up only while the ids it and
\* the requests in flight can use stay within the cap.
Room(op) ==
  LET name == InsertsInto(op)
  IN name # "none" =>
       sqlite_sequence[name]
         + Cardinality({r \in Slots : InFlight(r) /\ InsertsInto(reqs[r].op) = name})
       < MaxId(name)

\* The Authorization headers clients may present: none, garbage, or a token
\* this server issued, possibly past its expiry.
PresentedTokens == {NoToken, BadToken} \cup tokens \cup {Expired(t) : t \in tokens}

\* The Authorization headers authenticateToken refuses: none, garbage, an
\* expired token, and the token of a user whose row is gone.
RefusedTokens ==
  {NoToken, BadToken} \cup {Expired(t) : t \in tokens}
    \cup {t \in tokens : t.userId \notin DOMAIN users}

\* The tokens of the users the front end offers a route to (README.md 249-265:
\* the instructor pages call the instructor routes, the student pages the
\* student routes).
OfferedTokens(op) == {t \in tokens : t.role \in RouteRoles(op)}

(***************************************************************************)
(* SPECIFICATIONS                                                          *)
(***************************************************************************)
vars == <<proc, now, rateLimiters, rlStatus, refWindow, traffic, pipe, foreign_keys, users, courses,
          lessons, enrollments, progress, audit_log, sqlite_sequence, tokens, reqs>>

\* The limiter at process start.
InitLimiter ==
  /\ now = 0
  /\ rateLimiters = EmptyTable
  /\ rlStatus = [c \in Clients |-> 0]
  /\ refWindow = [c \in Clients |-> [start |-> 0, n |-> 0]]
  /\ traffic = EmptyTable
  /\ pipe = EmptyTable

\* The database file as CREATE TABLE IF NOT EXISTS makes it (server.js 43-114).
\* The code never issues PRAGMA foreign_keys, so whether the FOREIGN KEY
\* clauses are enforced is the default of the SQLite build.
InitEmptyDb ==
  /\ foreign_keys \in BOOLEAN
  /\ users = EmptyTable
  /\ courses = EmptyTable
  /\ lessons = EmptyTable
  /\ enrollments = EmptyTable
  /\ progress = EmptyTable
  /\ audit_log = <<>>
  /\ sqlite_sequence = [t \in Tables |-> 0]
  /\ tokens = {}
  /\ reqs = [r \in Slots |-> Idle]

\* The users three registrations leave, and the tokens those issued.
SeedUsers ==
  [u \in 1..3 |->
     [email |-> <<"a@x.com", "b@x.com", "c@x.com">>[u],
      password_hash |-> BcryptHash("password1"),
      role |-> <<"instructor", "instructor", "student">>[u]]]

\* The database once those users have registered, instructor 1 has created
\* nCourses courses and nLessons lessons in the first of them.
Seeded(nCourses, nLessons) ==
  /\ foreign_keys \in BOOLEAN
  /\ users = SeedUsers
  /\ courses = [c \in 1..nCourses |->
                  [title |-> "t1", description |-> "d1", instructor_id |-> 1]]
  /\ lessons = [l \in 1..nLessons |->
                  [course_id |-> 1, title |-> "t1", content |-> "c1", order_index |-> 0]]
  /\ enrollments = EmptyTable
  /\ progress = EmptyTable
  /\ audit_log = <<>>
  /\ sqlite_sequence =
       [t \in Tables |-> CASE t = "users" -> 3
                           [] t = "courses" -> nCourses
                           [] t = "lessons" -> nLessons
                           [] OTHER -> 0]
  /\ tokens = {Signed(u, SeedUsers[u].role) : u \in 1..3}
  /\ reqs = [r \in Slots |-> Idle]

InitRateLimit == InitProcess /\ InitLimiter /\ InitEmptyDb
InitAuth == InitProcess /\ InitLimiter /\ InitEmptyDb
Init == InitProcess /\ InitLimiter /\ Seeded(0, 0)
InitLessons == InitProcess /\ InitLimiter /\ Seeded(1, 0)
InitStudents == InitProcess /\ InitLimiter /\ Seeded(1, 1)

NextRateLimit ==
  \/ \E c \in Clients : perClientRateLimit(c)
  \/ Sweep
  \/ ClockAdvance

SpecRateLimit == InitRateLimit /\ [][NextRateLimit]_vars

\* One client sends bursts around a window boundary, and its requests are
\* recorded.
BurstClients == {"ip1"}

InitBurst ==
  /\ InitProcess
  /\ InitEmptyDb
  /\ now = 0
  /\ rateLimiters = EmptyTable
  /\ rlStatus = [c \in Clients |-> 0]
  /\ refWindow = [c \in Clients |-> [start |-> 0, n |-> 0]]
  /\ traffic = [c \in BurstClients |-> [t \in BurstTimes |-> [sent |-> 0, admitted |-> 0]]]
  /\ pipe = EmptyTable

NextBurst ==
  \/ \E c \in BurstClients : perClientRateLimit(c)
  \/ Sweep
  \/ ClockToBoundary

SpecBurst == InitBurst /\ [][NextBurst]_vars

\* One client's requests are followed through the chain to the limiter.
NoRequest == [method |-> "", ctype |-> "", parsed |-> FALSE, counted |-> FALSE,
              stage |-> "none", status |-> 0]

InitPipeline ==
  /\ InitProcess
  /\ InitEmptyDb
  /\ now = 0
  /\ rateLimiters = EmptyTable
  /\ rlStatus = [c \in Clients |-> 0]
  /\ refWindow = [c \in Clients |-> [start |-> 0, n |-> 0]]
  /\ traffic = EmptyTable
  /\ pipe = [c \in BurstClients |-> NoRequest]

NextPipeline ==
  \/ \E c \in BurstClients, method \in Methods, ctype \in ContentTypes,
        authorization \in BOOLEAN : Receive(c, method, ctype, authorization)
  \/ \E c \in BurstClients : pipe[c].stage = "limiter" /\ perClientRateLimit(c)

SpecPipeline == InitPipeline /\ [][NextPipeline]_vars

\* A request of one of the auth routes arrives.
AuthArrival ==
  \E r \in Slots, op \in AuthOps :
    /\ Room(op)
    /\ \E in \in Inputs(op) : Arrive(r, op, NoToken, in)

\* A request of one of the routes in ops arrives from a user the route is
\* offered to.
Arrival(ops) ==
  \E r \in Slots, op \in ops :
    /\ Room(op)
    /\ \E tok \in OfferedTokens(op), in \in Inputs(op) : Arrive(r, op, tok, in)

AuthSteps ==
  \E r \in Slots :
    \/ Register_GetUser(r)
    \/ Register_Hash(r)
    \/ Register_Insert(r)
    \/ Login_GetUser(r)
    \/ Login_Compare(r)
    \/ \E ok \in BOOLEAN : auditLog(r, ok)

NextAuth == AuthArrival \/ AuthSteps

SpecAuth == InitAuth /\ [][NextAuth]_vars

\* The steps every authenticated handler shares.
CommonSteps ==
  \E r \in Slots :
    \/ AuthLookup(r)
    \/ \E ok \in BOOLEAN : auditLog(r, ok)
    \/ Reload(r)

CourseSteps ==
  \E r \in Slots :
    \/ PostCourse_Insert(r)
    \/ PutCourse_GetCourse(r)
    \/ PutCourse_Update(r)
    \/ DeleteCourse_GetCourse(r)
    \/ DeleteCourse_Delete(r)

LessonSteps ==
  \E r \in Slots :
    \/ PostLesson_GetCourse(r)
    \/ PostLesson_Insert(r)
    \/ Lesson_GetLesson(r)
    \/ PutLesson_GetCourse(r)
    \/ PutLesson_Update(r)
    \/ DeleteLesson_GetCourse(r)
    \/ DeleteLesson_Delete(r)

EnrollmentSteps ==
  \E r \in Slots :
    \/ PostEnrollment_GetCourse(r)
    \/ PostEnrollment_GetEnrollment(r)
    \/ PostEnrollment_Insert(r)
    \/ DeleteEnrollment_GetEnrollment(r)
    \/ DeleteEnrollment_Delete(r)

ProgressSteps ==
  \E r \in Slots :
    \/ PostProgress_GetLesson(r)
    \/ PostProgress_GetEnrollment(r)
    \/ PostProgress_GetProgress(r)
    \/ \E t \in Stamps : PostProgress_Update(r, t)
    \/ \E t \in Stamps : PostProgress_Insert(r, t)

DomainSteps == CommonSteps \/ CourseSteps \/ LessonSteps \/ EnrollmentSteps \/ ProgressSteps

\* Requests are handled one at a time: a request arrives only when no other
\* is in flight.
NextSequential ==
  \/ (\A r \in Slots : ~InFlight(r)) /\ Arrival(InstructorOps \cup StudentOps)
  \/ DomainSteps

SpecSequential == Init /\ [][NextSequential]_vars

\* PUT or DELETE on a course, naming an id no course has been given.
UnknownCourse == MaxCourses + 1

ArrivalUnknownCourse ==
  \E r \in Slots, op \in {"put_course", "delete_course"} :
    \E tok \in OfferedTokens(op) :
      Arrive(r, op, tok, [valid |-> TRUE, id |-> UnknownCourse,
                          body |-> IF op = "put_course"
                                     THEN [title |-> <<"t2">>, description |-> <<>>]
                                     ELSE <<>>])

\* The instructors' requests on courses interleave at every await.
NextCourses ==
  \/ Arrival({"post_course", "put_course", "delete_course"})
  \/ ArrivalUnknownCourse
  \/ CommonSteps
  \/ CourseSteps

SpecCourses == Init /\ [][NextCourses]_vars

\* The instructors' requests on the lessons of a course, and the deletion of
\* the course, interleave at every await.
NextLessons ==
  \/ Arrival({"post_lesson", "put_lesson", "delete_lesson", "delete_course"})
  \/ \E r \in Slots : DeleteCourse_GetCourse(r) \/ DeleteCourse_Delete(r)
  \/ CommonSteps
  \/ LessonSteps

SpecLessons == InitLessons /\ [][NextLessons]_vars

\* Tokens are replayed on routes of either role while the stored roles change.
RoleGatedOps == {"post_course", "post_enrollment"}

ArrivalAnyToken ==
  \E r \in Slots, op \in RoleGatedOps :
    /\ Room(op)
    /\ \E tok \in tokens, in \in Inputs(op) : Arrive(r, op, tok, in)

NextRoles ==
  \/ ArrivalAnyToken
  \/ \E u \in DOMAIN users, role \in Roles : StoreRoleChange(u, role)
  \/ CommonSteps
  \/ \E r \in Slots : PostCourse_Insert(r)
  \/ \E r \in Slots : PostEnrollment_GetCourse(r)
  \/ \E r \in Slots : PostEnrollment_GetEnrollment(r)
  \/ \E r \in Slots : PostEnrollment_Insert(r)

SpecRoles == Init /\ [][NextRoles]_vars

\* The database once the row of user 3 has been removed from the users table
\* (no route deletes a user): the token issued to that user is still in use.
InitTokens ==
  /\ InitProcess
  /\ InitLimiter
  /\ foreign_keys \in BOOLEAN
  /\ users = [u \in 1..2 |-> SeedUsers[u]]
  /\ courses = EmptyTable
  /\ lessons = EmptyTable
  /\ enrollments = EmptyTable
  /\ progress = EmptyTable
  /\ audit_log = <<>>
  /\ sqlite_sequence = [t \in Tables |-> IF t = "users" THEN 3 ELSE 0]
  /\ tokens = {Signed(u, SeedUsers[u].role) : u \in 1..3}
  /\ reqs = [r \in Slots |-> Idle]

\* Requests that authenticateToken refuses arrive on every protected route,
\* among requests that create courses.  authenticateToken reads nothing but
\* the Authorization header, so one input stands for those of a route.
ArrivalRefused ==
  \E r \in Slots, op \in ProtectedOps :
    \E tok \in RefusedTokens :
      Arrive(r, op, tok, CHOOSE in \in Inputs(op) : TRUE)

NextTokens ==
  \/ ArrivalRefused
  \/ Arrival({"post_course"})
  \/ \E r \in Slots : AuthLookup(r)
  \/ \E r \in Slots : PostCourse_Insert(r)
  \/ \E r \in Slots, ok \in BOOLEAN : auditLog(r, ok)
  \/ \E r \in Slots : Reload(r)

SpecTokens == InitTokens /\ [][NextTokens]_vars

\* Users call the routes of the other role, with bodies the validators accept
\* and bodies they reject, on targets that exist and targets that do not,
\* among students who enroll.
ArrivalWrongRole ==
  \E r \in Slots, op \in InstructorOps \cup StudentOps :
    \E tok \in tokens \ OfferedTokens(op), in \in Inputs(op) \cup RejectedInputs(op) :
      Arrive(r, op, tok, in)

NextGate ==
  \/ ArrivalWrongRole
  \/ Arrival({"post_enrollment"})
  \/ \E r \in Slots : AuthLookup(r)
  \/ \E r \in Slots : PostEnrollment_GetCourse(r)
  \/ \E r \in Slots : PostEnrollment_GetEnrollment(r)
  \/ \E r \in Slots : PostEnrollment_Insert(r)
  \/ \E r \in Slots, ok \in BOOLEAN : auditLog(r, ok)
  \/ \E r \in Slots : Reload(r)

SpecGate == InitStudents /\ [][NextGate]_vars

\* Students list their progress in a course before and after the course is
\* created and they enroll in it.
NextListing ==
  \/ Arrival({"post_course", "post_enrollment", "get_course_progress"})
  \/ \E r \in Slots : AuthLookup(r)
  \/ \E r \in Slots : PostCourse_Insert(r)
  \/ \E r \in Slots : PostEnrollment_GetCourse(r)
  \/ \E r \in Slots : PostEnrollment_GetEnrollment(r)
  \/ \E r \in Slots : PostEnrollment_Insert(r)
  \/ \E r \in Slots : GetCourseProgress_GetEnrollment(r)
  \/ \E r \in Slots : GetCourseProgress_List(r)
  \/ \E r \in Slots, ok \in BOOLEAN : auditLog(r, ok)
  \/ \E r \in Slots : Reload(r)

SpecListing == Init /\ [][NextListing]_vars

\* process.on('SIGTERM' | 'SIGINT'): server.close(callback) stops the listener
\* and keeps the callback for when the last connection has ended.
Signal(sig) ==
  /\ sig \in {"SIGTERM", "SIGINT"}
  /\ ~proc.exited
  /\ proc' = [proc EXCEPT !.listening = FALSE, !.stopping = TRUE]
  /\ UNCHANGED <<rlVars, dbVars, reqs>>

\* The callback of server.close runs once no request holds a connection:
\* db.close() asks sqlite3 to close the handle, which it does on another
\* thread, and process.exit(0) follows without waiting for it; the close has
\* finished by the time the process ends (closed), or has not.
ServerClosed(closed) ==
  /\ proc.stopping /\ ~proc.exited
  /\ \A r \in Slots : ~InFlight(r)
  /\ proc' = [proc EXCEPT !.db = IF closed THEN "closed" ELSE "closing",
                          !.exited = TRUE]
  /\ UNCHANGED <<rlVars, dbVars, reqs>>

\* Instructors work on courses while a shutdown signal may come at any moment.
NextShutdown ==
  \/ \E sig \in {"SIGTERM", "SIGINT"} : Signal(sig)
  \/ \E closed \in BOOLEAN : ServerClosed(closed)
  \/ Arrival({"post_course", "put_course", "delete_course"})
  \/ CommonSteps
  \/ CourseSteps

SpecShutdown == Init /\ [][NextShutdown]_vars

\* Two students and a course: users 2 and 3 have registered as students.
InitTwoStudents ==
  /\ InitProcess
  /\ InitLimiter
  /\ foreign_keys \in BOOLEAN
  /\ users = [SeedUsers EXCEPT ![2].role = "student"]
  /\ courses = [c \in 1..1 |-> [title |-> "t1", description |-> "d1", instructor_id |-> 1]]
  /\ lessons = EmptyTable
  /\ enrollments = EmptyTable
  /\ progress = EmptyTable
  /\ audit_log = <<>>
  /\ sqlite_sequence = [t \in Tables |-> CASE t = "users" -> 3
                                           [] t = "courses" -> 1
                                           [] OTHER -> 0]
  /\ tokens = {Signed(1, "instructor"), Signed(2, "student"), Signed(3, "student")}
  /\ reqs = [r \in Slots |-> Idle]

\* The two students enroll and delete enrollments, their own and each
\* other's, interleaving at every await.
NextEnrollments ==
  \/ Arrival({"post_enrollment", "delete_enrollment"})
  \/ CommonSteps
  \/ EnrollmentSteps

SpecEnrollments == InitTwoStudents /\ [][NextEnrollments]_vars

\* A storage call of the course handler in slot r, other than the INSERT of
\* auditLog, is answered.
CourseCallAnswered(r) ==
  \/ AuthLookup(r)
  \/ PostCourse_Insert(r)
  \/ PutCourse_GetCourse(r)
  \/ PutCourse_Update(r)
  \/ DeleteCourse_GetCourse(r)
  \/ DeleteCourse_Delete(r)
  \/ Reload(r)

\* The course routes with a storage engine that answers every SELECT and
\* every statement on courses in the end, while the INSERT INTO audit_log may
\* be delayed without bound or never complete.
SpecAuditStall ==
  Init /\ [][NextCourses]_vars /\ \A r \in Slots : WF_vars(CourseCallAnswered(r))

\* The students' requests, and the deletion of the course they are enrolled
\* in, interleave at every await.
StudentsOps == StudentOps \cup {"delete_course"}

NextStudents ==
  \/ Arrival(StudentsOps)
  \/ \E r \in Slots : DeleteCourse_GetCourse(r) \/ DeleteCourse_Delete(r)
  \/ CommonSteps
  \/ EnrollmentSteps
  \/ ProgressSteps

SpecStudents == InitStudents /\ [][NextStudents]_vars

\* All requests interleave at every await.
Next ==
  \/ Arrival(InstructorOps \cup StudentOps)
  \/ DomainSteps

Spec == Init /\ [][Next]_vars

(***************************************************************************)
(* PROPERTIES                                                              *)
(***************************************************************************)
\* C1: within a window the first RATE_LIMIT_MAX_REQUESTS requests of a client are
\* admitted and every later one gets 429; the first request after the window
\* has elapsed opens a new window and is admitted.  (refWindow counts the
\* client's requests in the window as the specification defines it: a request
\* with n = 1 is the one that opened the window.)
C1_RateLimitWindow ==
  \A c \in Clients :
    refWindow[c].n > 0 =>
      /\ refWindow[c].n <= RATE_LIMIT_MAX_REQUESTS => rlStatus[c] = ADMIT
      /\ refWindow[c].n > RATE_LIMIT_MAX_REQUESTS => rlStatus[c] = TOO_MANY

\* One client has just been refused as request 101 of its window while another,
\* whose earlier window elapsed, has been admitted as the first of a new one.
C1_Witness ==
  \E c, d \in Clients :
    /\ refWindow[c].n = RATE_LIMIT_MAX_REQUESTS + 1
    /\ rlStatus[c] = TOO_MANY
    /\ refWindow[d].n = 1
    /\ refWindow[d].start > RATE_LIMIT_WINDOW_MS
    /\ rlStatus[d] = ADMIT

\* C2: the role gate decides by the role the users table holds when the
\* handler looks the subject up, whatever role the token embeds: a request is
\* refused with 403, having written nothing, exactly when that stored role is
\* not one the route admits.
C2_GateUsesStoredRole ==
  \A r \in Slots :
    LET q == reqs[r]
    IN (q.op \in RoleGatedOps /\ q.stored # "") =>
         IF q.stored \in RouteRoles(q.op)
           THEN q.status # 403
           ELSE q.pc = "done" /\ q.status = 403 /\ q.wrote = {}

\* A token that embeds a role the route refuses has created a course or an
\* enrollment because the stored role is admitted, and a token that embeds an
\* admitted role has been refused because the stored role is not.
C2_Witness ==
  \E r, s \in Slots :
    /\ reqs[r].tok.role \notin RouteRoles(reqs[r].op)
    /\ reqs[r].stored \in RouteRoles(reqs[r].op)
    /\ reqs[r].pc = "done" /\ reqs[r].status = 201
    /\ reqs[s].tok.role \in RouteRoles(reqs[s].op)
    /\ reqs[s].stored \notin RouteRoles(reqs[s].op) /\ reqs[s].stored # ""
    /\ reqs[s].pc = "done" /\ reqs[s].status = 403

\* A request that has been answered, and one answered after its subject was
\* looked up.
Done(q) == q.pc = "done"
Served(q) == Done(q) /\ q.user.id # 0

\* The course or lesson a PUT or DELETE names is in its table.
TargetExists(q) ==
  IF q.op \in {"put_course", "delete_course"} THEN q.id \in DOMAIN courses
  ELSE q.id \in DOMAIN lessons

\* C3: only the instructor who owns a course creates lessons in it or updates
\* or deletes it or its lessons; an update or delete by another instructor on
\* an existing course or lesson is answered 403 and writes nothing (no table,
\* no audit row).  "Existing" is taken in the claim's favour: the target and
\* its course were there, owned by someone else, when the request arrived,
\* and the target is still there when the request is answered.
C3_OnlyOwnerMutates ==
  \A r \in Slots :
    LET q == reqs[r]
    IN /\ (q.op \in InstructorOps \ {"post_course"} /\ q.wrote \cap {"courses", "lessons"} # {})
            => (q.course # <<>> /\ q.course[1].instructor_id = q.user.id)
       /\ (/\ Served(q)
           /\ q.op \in {"put_course", "delete_course", "put_lesson", "delete_lesson"}
           /\ q.pre \notin {0, q.user.id}
           /\ TargetExists(q))
            => (q.status = 403 /\ q.wrote = {})

\* C4: PUT and DELETE on a course answer a caller who does not own it with
\* the same status whether the course exists (and is another instructor's,
\* from the request's arrival to its answer) or its id has never been given
\* to a course.
C4_SameStatusWhetherItExists ==
  \A r, s \in Slots :
    LET q == reqs[r]
        p == reqs[s]
    IN (/\ Served(q) /\ Served(p)
        /\ q.op \in {"put_course", "delete_course"} /\ p.op = q.op
        /\ q.pre \notin {0, q.user.id} /\ q.id \in DOMAIN courses
        /\ p.id > sqlite_sequence["courses"])
         => q.status = p.status

\* C4, as the code has it: on an id never given to a course the answer is 404,
\* on a course that is another instructor's it is 403; neither writes.
C4_MissingIs404ForeignIs403 ==
  \A r \in Slots :
    LET q == reqs[r]
    IN (Served(q) /\ q.op \in {"put_course", "delete_course"}) =>
         /\ q.id > sqlite_sequence["courses"] => (q.status = 404 /\ q.wrote = {})
         /\ (q.pre \notin {0, q.user.id} /\ q.id \in DOMAIN courses)
              => (q.status = 403 /\ q.wrote = {})

\* The same instructor has been answered on a course of another instructor
\* and on an id no course has.
C4_Witness ==
  \E r, s \in Slots :
    /\ Served(reqs[r]) /\ Served(reqs[s])
    /\ reqs[r].op = "put_course" /\ reqs[s].op = "put_course"
    /\ reqs[r].user.id = reqs[s].user.id
    /\ reqs[r].pre \notin {0, reqs[r].user.id} /\ reqs[r].id \in DOMAIN courses
    /\ reqs[r].status = 403
    /\ reqs[s].id > sqlite_sequence["courses"]
    /\ reqs[s].status = 404

\* The student of a request is enrolled in the course of the lesson it names.
EnrolledForLesson(q) == EnrollmentOf(q.user.id, lessons[q.id].course_id) # {}

\* C5: with requests handled one after another, POST /api/progress on a
\* lesson is answered 403 and writes nothing when the student has no
\* enrollment in the lesson's course, and is answered 200 with the student's
\* progress row for that lesson when the student has one.
C5_ProgressNeedsEnrollment ==
  \A r \in Slots :
    LET q == reqs[r]
    IN (Served(q) /\ q.op = "post_progress" /\ q.id \in DOMAIN lessons) =>
         IF EnrolledForLesson(q)
           THEN /\ q.status = 200
                /\ "progress" \in q.wrote
                /\ q.out = OneRow(progress, ProgressOf(q.user.id, q.id))
                /\ q.out # <<>>
           ELSE q.status = 403 /\ q.wrote = {}

\* A student who enrolled through the API has a progress submission answered 200.
C5_Witness ==
  \E r \in Slots :
    /\ Served(reqs[r]) /\ reqs[r].op = "post_progress"
    /\ reqs[r].id \in DOMAIN lessons /\ EnrolledForLesson(reqs[r])
    /\ sqlite_sequence["enrollments"] > 0
    /\ reqs[r].status = 200 /\ reqs[r].out # <<>>

\* C6: submitting completed = true for a lesson whose progress row is already
\* completed changes nothing: the row, completed_at included, stays as it is.
C6_RepeatedCompletionChangesNothing ==
  [][\A r \in Slots :
       IF reqs[r].op = "post_progress" /\ reqs[r].pc = "update" /\ reqs'[r].pc = "audit"
         THEN IF reqs[r].body.completed
                THEN \A p \in ProgressOf(reqs[r].user.id, reqs[r].id) :
                       progress[p].completed => progress'[p] = progress[p]
                ELSE TRUE
         ELSE TRUE]_vars

\* C7: a progress row, in the table or in a response, has completed_at set
\* exactly when it is completed.
C7_CompletedAtIffCompleted ==
  /\ \A p \in DOMAIN progress : (progress[p].completed_at # NullTime) <=> progress[p].completed
  /\ \A r \in Slots :
       (reqs[r].op = "post_progress" /\ reqs[r].out # <<>>) =>
         ((reqs[r].out[1].completed_at # NullTime) <=> reqs[r].out[1].completed)

\* A submission of completed = false over a completed row has been answered
\* with the row cleared.
C7_Witness ==
  \E r \in Slots :
    /\ Done(reqs[r]) /\ reqs[r].op = "post_progress" /\ reqs[r].status = 200
    /\ reqs[r].existing # <<>> /\ reqs[r].out # <<>>
    /\ reqs[r].existing[1].completed /\ reqs[r].existing[1].completed_at # NullTime
    /\ ~reqs[r].out[1].completed /\ reqs[r].out[1].completed_at = NullTime

\* C8: once DELETE on a course has been answered 204, no lesson or enrollment
\* of that course and no progress row on a lesson of it (or on a lesson that
\* is gone) remains.
C8_NoOrphansAfterCourseDelete ==
  \A r \in Slots :
    LET q == reqs[r]
    IN (Done(q) /\ q.op = "delete_course" /\ q.status = 204) =>
         /\ LessonsOfCourses({q.id}) = {}
         /\ EnrollmentsOfCourses({q.id}) = {}
         /\ \A p \in DOMAIN progress :
              /\ progress[p].lesson_id \in DOMAIN lessons
              /\ lessons[progress[p].lesson_id].course_id # q.id

\* C9: a registration that arrives after a registration with the same email
\* has succeeded is answered 409, inserts no user and is given no token.
C9_DuplicateEmailIs409 ==
  \A r \in Slots :
    LET q == reqs[r]
    IN IF Done(q) /\ q.op = "register" /\ q.pre # 0
         THEN q.body.email = users[q.pre].email =>
                (q.status = 409 /\ q.wrote = {} /\ q.out = <<>>)
         ELSE TRUE

\* C9, as the code has it: a registration that arrives after one with the
\* same email (letter case apart) has succeeded is answered 409 when its body
\* passes the validators and 400 when it does not; either way it inserts no
\* user and is given no token, and no two users share an email.
C9_DuplicateEmailRefused ==
  /\ \A r \in Slots :
       LET q == reqs[r]
       IN (Done(q) /\ q.op = "register" /\ q.pre # 0) =>
            /\ q.status = IF q.valid THEN 409 ELSE 400
            /\ q.wrote = {}
            /\ q.out = <<>>
  /\ \A u, v \in DOMAIN users : users[u].email = users[v].email => u = v

\* A valid registration whose email, in another letter case, a user already
\* had has been answered 409.
C9_Witness ==
  \E r \in Slots :
    /\ Done(reqs[r]) /\ reqs[r].op = "register" /\ reqs[r].valid
    /\ reqs[r].pre \in DOMAIN users
    /\ reqs[r].status = 409 /\ reqs[r].wrote = {}
    /\ Cardinality(DOMAIN users) = 2

\* C10: POST /api/enrollments of a student into an existing course in which
\* the student is enrolled (the enrollment is there from the request's
\* arrival to its answer) is answered 409 and writes nothing, no audit row
\* included; and no student ever has two enrollments in one course.
C10_DuplicateEnrollmentIs409 ==
  /\ \A r \in Slots :
       LET q == reqs[r]
       IN (/\ Served(q) /\ q.op = "post_enrollment"
           /\ q.pre \in DOMAIN enrollments
           /\ q.id \in DOMAIN courses)
            => (q.status = 409 /\ q.wrote = {})
  /\ \A u \in DOMAIN users, c \in 1..MaxCourses : Cardinality(EnrollmentOf(u, c)) <= 1

\* A student enrolled through the API has asked again and been answered 409.
C10_Witness ==
  \E r \in Slots :
    /\ Served(reqs[r]) /\ reqs[r].op = "post_enrollment"
    /\ reqs[r].pre \in DOMAIN enrollments /\ reqs[r].id \in DOMAIN courses
    /\ reqs[r].status = 409 /\ reqs[r].wrote = {}

\* C11: a request to a protected route with no token, a token jwt.verify
\* rejects, or an expired token is answered 401 at once; one whose token names
\* a user that is gone is answered 401 at the lookup; neither changes a table.
C11_NoValidTokenIs401 ==
  \A r \in Slots :
    LET q == reqs[r]
    IN q.op \in ProtectedOps =>
         /\ q.tok.kind # "signed" => (Done(q) /\ q.status = 401 /\ q.wrote = {})
         /\ (q.tok.kind = "signed" /\ q.tok.userId \notin DOMAIN users) =>
              /\ q.pc = "auth_lookup" \/ (Done(q) /\ q.status = 401)
              /\ q.wrote = {}

\* A mutating request with an expired token and one with the token of the
\* removed user have both been answered 401, a course having been created.
C11_Witness ==
  \E r, s \in Slots :
    /\ reqs[r].op \in InstructorOps \cup StudentOps /\ reqs[r].tok.kind = "expired"
    /\ Done(reqs[r]) /\ reqs[r].status = 401
    /\ reqs[s].tok.kind = "signed" /\ reqs[s].tok.userId \notin DOMAIN users
    /\ Done(reqs[s]) /\ reqs[s].status = 401
    /\ DOMAIN courses # {}

\* No row of a resource has been loaded by the handler of the request.
NothingLoaded(q) ==
  q.course = <<>> /\ q.lesson = <<>> /\ q.enrollment = <<>> /\ q.existing = <<>>

\* C12: a request to a course, lesson, enrollment or progress mutation whose
\* subject has a stored role the route does not admit is answered 403 with
\* nothing loaded and nothing written, whether or not its target exists and
\* its body is valid; and a request that succeeds has an admitted stored role.
C12_WrongRoleIs403First ==
  \A r \in Slots :
    LET q == reqs[r]
    IN (q.op \in InstructorOps \cup StudentOps /\ q.stored # "") =>
         /\ q.stored \notin RouteRoles(q.op) =>
              (Done(q) /\ q.status = 403 /\ q.wrote = {} /\ NothingLoaded(q))
         /\ (Done(q) /\ q.status \in {200, 201, 204}) => q.stored \in RouteRoles(q.op)

\* A student has been answered 403 on PUT of an existing course, and an
\* instructor 403 on a student route with a body the validators reject.
C12_Witness ==
  \E r, s \in Slots :
    /\ reqs[r].op = "put_course" /\ reqs[r].stored = "student" /\ reqs[r].valid
    /\ reqs[r].id \in DOMAIN courses
    /\ Done(reqs[r]) /\ reqs[r].status = 403
    /\ reqs[s].op \in StudentOps /\ reqs[s].stored = "instructor" /\ ~reqs[s].valid
    /\ Done(reqs[s]) /\ reqs[s].status = 403

\* The tables other than audit_log
DomainTables == <<users, courses, lessons, enrollments, progress, sqlite_sequence>>

\* C13: whenever an audit write returns to its handler, rejected or not, the
\* handler goes on exactly as after a successful write: same next step, same
\* status and body, and the users, courses, lessons, enrollments and progress
\* tables are as they were.
C13_AuditFailureChangesNothing ==
  [][\A r \in Slots :
       (reqs[r].pc = "audit" /\ reqs'[r] # reqs[r]) =>
          LET succeeded == AfterAudit(Wrote(reqs[r], "audit_log"))
          IN /\ [reqs'[r] EXCEPT !.wrote = succeeded.wrote] = succeeded
             /\ DomainTables' = DomainTables]_vars

\* A mutation has been answered with success although its audit write failed.
C13_Witness ==
  \E r \in Slots :
    /\ Done(reqs[r]) /\ reqs[r].status \in {200, 201, 204}
    /\ reqs[r].audit # NoAudit
    /\ reqs[r].wrote # {} /\ "audit_log" \notin reqs[r].wrote

\* C14: every request answered 401, for a refused token or a failed login,
\* has had an audit write attempted for it.
C14_EveryAuthFailureIsAudited ==
  \A r \in Slots :
    (Done(reqs[r]) /\ reqs[r].status = 401) => reqs[r].audit # NoAudit

\* The action each mutating route gives auditLog
AuditAction(op) ==
  CASE op = "post_course" -> "COURSE_CREATED"
    [] op = "put_course" -> "COURSE_UPDATED"
    [] op = "delete_course" -> "COURSE_DELETED"
    [] op = "post_lesson" -> "LESSON_CREATED"
    [] op = "put_lesson" -> "LESSON_UPDATED"
    [] op = "delete_lesson" -> "LESSON_DELETED"
    [] op = "post_enrollment" -> "ENROLLMENT_CREATED"
    [] op = "delete_enrollment" -> "ENROLLMENT_DELETED"
    [] op = "post_progress" -> "PROGRESS_UPDATED"

\* The id of the row a mutating request changed: the one it was given for a
\* new row or found for the progress record, else the one in its path.
AffectedId(q) ==
  IF q.op \in {"post_course", "post_lesson", "post_enrollment", "post_progress"}
    THEN q.result ELSE q.id

\* The rows of audit_log written for the request in slot r
AuditRows(r) == {i \in DOMAIN audit_log : audit_log[i].req = r}

\* The audit call of the request names its subject, its action and its row.
AuditMatches(q) ==
  /\ q.audit.user_id = q.tok.userId
  /\ q.audit.action = AuditAction(q.op)
  /\ q.audit.resource_id = AffectedId(q) /\ AffectedId(q) > 0

\* The row the statement of the request addresses is no longer stored (ids
\* are not given twice, so it stays so).
TargetGone(q) ==
  CASE q.op \in {"put_course", "delete_course"} -> q.id \notin DOMAIN courses
    [] q.op \in {"put_lesson", "delete_lesson"} -> q.id \notin DOMAIN lessons
    [] q.op = "delete_enrollment" -> q.id \notin DOMAIN enrollments
    [] q.op = "post_progress" -> ProgressOf(q.user.id, q.id) = {}
    [] OTHER -> FALSE

\* The statement of the request has run: the request changed a table, or the
\* row it addresses was removed by another request before it ran.
StatementRan(q) == q.wrote \ {"audit_log"} # {} \/ TargetGone(q)

C15_RequestOrder(r) ==
  LET q == reqs[r]
      changed == q.wrote \ {"audit_log"}
  IN q.op \in InstructorOps \cup StudentOps =>
       /\ q.pc = "audit" => (StatementRan(q) /\ AuditMatches(q) /\ AuditRows(r) = {})
       /\ (Done(q) /\ q.status \in {200, 201, 204}) =>
            (StatementRan(q) /\ AuditMatches(q))
       /\ changed # {} /\ q.pc \in {"reload", "done"} => q.audit # NoAudit
       /\ Cardinality(AuditRows(r)) = (IF "audit_log" \in q.wrote THEN 1 ELSE 0)
       /\ \A i \in AuditRows(r) :
            audit_log[i] = [req |-> r] @@ q.audit
       /\ (Done(q) /\ q.status \in {400, 403, 404, 409}) =>
            (q.wrote = {} /\ q.audit = NoAudit)

\* C15: a mutating request calls auditLog only once its change is stored,
\* naming its subject, its action and the row it changed, calls it once and
\* before it responds; a request answered 400, 403, 404 or 409 has changed
\* nothing and has made no audit call.
C15_MutateThenAuditOnce ==
  /\ [](\A r \in Slots : C15_RequestOrder(r))
  /\ [][\A r \in Slots :
         (reqs'[r].pc = "audit" /\ reqs[r].pc # "audit") =>
            (InFlight(r) /\ reqs[r].audit = NoAudit)]_vars

\* A created enrollment has been answered 201 with its one audit row written.
C15_Witness ==
  \E r \in Slots :
    /\ reqs[r].op = "post_enrollment" /\ Done(reqs[r]) /\ reqs[r].status = 201
    /\ reqs[r].result \in DOMAIN enrollments
    /\ Cardinality(AuditRows(r)) = 1

\* The routes with an ownership or enrollment gate, and the table their
\* target row is in.
GatedOps == {"put_course", "delete_course", "post_lesson", "put_lesson",
             "delete_lesson", "post_progress", "get_course_progress"}

TargetTable(op) ==
  IF op \in {"put_lesson", "delete_lesson", "post_progress"} THEN "lessons"
  ELSE "courses"

\* No row has ever been stored under the id the request names (ids are given
\* in increasing order and never again).
NeverStored(q) == q.id > sqlite_sequence[TargetTable(q.op)]

\* C16: a request of the route's role with a valid body, to a route with an
\* ownership or enrollment gate, naming a resource that never existed, is
\* answered 404.
C16_MissingTargetIs404 ==
  \A r \in Slots :
    LET q == reqs[r]
    IN (/\ q.op \in GatedOps /\ Done(q) /\ q.valid
        /\ q.stored \in RouteRoles(q.op)
        /\ NeverStored(q)) => q.status = 404

\* A PUT whose body supplies none of the mutable fields, by the owner of the
\* course the handler has loaded.
EmptyUpdateByOwner(q) ==
  /\ q.op \in {"put_course", "put_lesson"} /\ q.valid
  /\ q.body # <<>> /\ Supplied(q.body) = {}
  /\ q.course # <<>> /\ OwnsCourse(q, q.course[1])

\* C17: a course or lesson update by the owner that supplies no mutable field
\* is answered 400 as soon as the ownership check has passed, having written
\* to no table and made no audit call, and the step that answers it leaves
\* every table, audit_log included, as it was.
C17_EmptyUpdateIsNoOp ==
  /\ [](\A r \in Slots :
          EmptyUpdateByOwner(reqs[r]) =>
            /\ Done(reqs[r]) /\ reqs[r].status = 400
            /\ reqs[r].wrote = {} /\ reqs[r].audit = NoAudit /\ AuditRows(r) = {})
  /\ [][\A r \in Slots :
         (EmptyUpdateByOwner(reqs'[r]) /\ reqs[r].pc = "get_course") =>
            UNCHANGED dbVars]_vars

\* The owner's empty update of a stored lesson has been answered 400.
C17_Witness ==
  \E r \in Slots :
    /\ EmptyUpdateByOwner(reqs[r]) /\ reqs[r].op = "put_lesson"
    /\ reqs[r].id \in DOMAIN lessons
    /\ Done(reqs[r]) /\ reqs[r].status = 400

\* C18: the storage handle is closed only when the listener has stopped and
\* no request is in flight, and the process has exited only when the handle
\* is closed.
C18_CloseAfterDrainExitAfterClose ==
  /\ proc.db # "open" => (~proc.listening /\ \A r \in Slots : ~InFlight(r))
  /\ proc.exited => proc.db = "closed"

\* The request asks to delete an enrollment that is stored and belongs to a
\* student other than its subject.
DeletesAnothers(q) ==
  /\ q.op = "delete_enrollment"
  /\ q.id \in DOMAIN enrollments
  /\ enrollments[q.id].student_id # q.tok.userId

\* C19: a DELETE of another student's enrollment is answered, once its SELECT
\* has resolved, with the empty 404 of an unknown id and has written nothing;
\* and whenever an enrollment leaves the table, the step is the DELETE of a
\* request whose subject is the enrollment's student.
C19_OnlyOwnStudentRemoves ==
  /\ [](\A r \in Slots :
          (DeletesAnothers(reqs[r]) /\ reqs[r].pc \notin {"auth_lookup", "get_enrollment"}) =>
             /\ Done(reqs[r]) /\ reqs[r].status = 404 /\ reqs[r].out = <<>>
             /\ reqs[r].wrote = {} /\ reqs[r].audit = NoAudit)
  /\ [][\A e \in DOMAIN enrollments :
         e \notin DOMAIN enrollments' =>
           \E r \in Slots :
             /\ reqs[r].op = "delete_enrollment" /\ reqs[r].pc = "delete"
             /\ reqs'[r].pc = "audit" /\ reqs[r].id = e
             /\ reqs[r].tok.userId = enrollments[e].student_id]_vars

\* One student's DELETE of the other's stored enrollment has been answered
\* 404 while the owner's own DELETE of it is in flight.
C19_Witness ==
  \E r, s \in Slots :
    /\ DeletesAnothers(reqs[r]) /\ Done(reqs[r]) /\ reqs[r].status = 404
    /\ reqs[s].op = "delete_enrollment" /\ reqs[s].id = reqs[r].id
    /\ reqs[s].pc = "delete"

\* C20: of two answered POST /api/enrollments of one student for one stored
\* course, neither of which found the student enrolled on arrival, one is
\* answered 201 and the other 409, and the student has one enrollment in
\* the course.
C20_LosingInsertIs409 ==
  \A r, s \in Slots :
    LET q == reqs[r]
        p == reqs[s]
    IN (/\ r # s
        /\ q.op = "post_enrollment" /\ p.op = "post_enrollment"
        /\ Served(q) /\ Served(p)
        /\ q.tok.userId = p.tok.userId /\ q.id = p.id
        /\ q.pre = 0 /\ p.pre = 0
        /\ q.id \in DOMAIN courses)
         => /\ {q.status, p.status} = {201, 409}
            /\ Cardinality(EnrollmentOf(q.tok.userId, q.id)) = 1

\* The requests of client c admitted at the times from a to b.
RECURSIVE SumAdmitted(_, _)
SumAdmitted(c, ts) ==
  IF ts = {} THEN 0
  ELSE LET t == CHOOSE u \in ts : TRUE
       IN traffic[c][t].admitted + SumAdmitted(c, ts \ {t})

AdmittedIn(c, a, b) == SumAdmitted(c, {t \in BurstTimes : a <= t /\ t <= b})

\* The spans of at most one window duration.
Spans == {sp \in BurstTimes \X BurstTimes :
            sp[1] <= sp[2] /\ sp[2] - sp[1] <= RATE_LIMIT_WINDOW_MS}

\* C21 as stated: a client that opened a window, sent a ceiling's worth of
\* requests in its last millisecond and another in the first millisecond
\* after it has had all of them admitted, 2 x ceiling within a span of 1 ms.
C21_BoundaryBurstAdmitsTwiceCeiling ==
  \A c \in DOMAIN traffic :
    (/\ traffic[c][0].sent > 0
     /\ traffic[c][RATE_LIMIT_WINDOW_MS].sent = RATE_LIMIT_MAX_REQUESTS
     /\ traffic[c][RATE_LIMIT_WINDOW_MS + 1].sent = RATE_LIMIT_MAX_REQUESTS)
      => AdmittedIn(c, RATE_LIMIT_WINDOW_MS, RATE_LIMIT_WINDOW_MS + 1)
           = 2 * RATE_LIMIT_MAX_REQUESTS

\* C21 amended: within any span of at most one window duration a client has
\* at most 2 x ceiling - 1 requests admitted (the request that opened the
\* earlier window lies more than a window before the opening of the later).
C21_BurstBound ==
  \A c \in DOMAIN traffic, sp \in Spans :
    AdmittedIn(c, sp[1], sp[2]) <= 2 * RATE_LIMIT_MAX_REQUESTS - 1

\* A burst straddling the boundary has had 2 x ceiling - 1 requests admitted.
C21_Witness ==
  \E c \in DOMAIN traffic :
    AdmittedIn(c, RATE_LIMIT_WINDOW_MS, RATE_LIMIT_WINDOW_MS + 1)
      = 2 * RATE_LIMIT_MAX_REQUESTS - 1

\* C22: the limiter whose Map is swept and the limiter that is never swept
\* (refWindow) agree: a client's entry, while it is in the Map, holds the
\* count and the window start of the unswept limiter; a client with no entry
\* is one the unswept limiter would reset at its next request; the latest
\* decision is the one the unswept limiter makes from its count; and a sweep
\* deletes only entries whose window has elapsed.
C22_SweepChangesNoDecision ==
  /\ [](\A c \in Clients :
          refWindow[c].n > 0 =>
            /\ c \in DOMAIN rateLimiters =>
                 rateLimiters[c] = [count |-> refWindow[c].n,
                                    resetTime |-> refWindow[c].start]
            /\ c \notin DOMAIN rateLimiters =>
                 now - refWindow[c].start > RATE_LIMIT_WINDOW_MS
            /\ rlStatus[c] = LimiterDecision([count |-> refWindow[c].n,
                                              resetTime |-> refWindow[c].start]))
  /\ [][\A c \in DOMAIN rateLimiters :
         c \notin DOMAIN rateLimiters' =>
           now - rateLimiters[c].resetTime > RATE_LIMIT_WINDOW_MS]_vars

\* A sweep has deleted the entry of one client, whose window elapsed, and kept
\* that of another, which is over the ceiling of a window exactly one window
\* duration old.
C22_Witness ==
  \E c, d \in Clients :
    /\ refWindow[c].n > 0 /\ c \notin DOMAIN rateLimiters
    /\ d \in DOMAIN rateLimiters
    /\ now - rateLimiters[d].resetTime = RATE_LIMIT_WINDOW_MS
    /\ rateLimiters[d].count > RATE_LIMIT_MAX_REQUESTS
    /\ rlStatus[d] = TOO_MANY

\* C23: the sweep interval is longer than the window, so that while a
\* client's window is current fewer than two sweep intervals have passed
\* since it opened.
C23_SweepCoarserThanWindow ==
  /\ SWEEP_INTERVAL_MS > RATE_LIMIT_WINDOW_MS
  /\ \A c \in DOMAIN rateLimiters :
       ~WindowElapsed(rateLimiters, c, now) =>
          now - rateLimiters[c].resetTime < 2 * SWEEP_INTERVAL_MS

\* C24: of two answered POST /api/progress of one student for one stored
\* lesson, both of which passed the enrollment gate and found no Progress row,
\* neither is answered 500, and the student has one Progress row for the
\* lesson.
C24_LosingProgressInsertIsBenign ==
  \A r, s \in Slots :
    LET q == reqs[r]
        p == reqs[s]
    IN (/\ r # s
        /\ q.op = "post_progress" /\ p.op = "post_progress"
        /\ Served(q) /\ Served(p)
        /\ q.tok.userId = p.tok.userId /\ q.id = p.id
        /\ q.enrollment # <<>> /\ p.enrollment # <<>>
        /\ q.existing = <<>> /\ p.existing = <<>>
        /\ q.id \in DOMAIN lessons)
         => /\ q.status # 500 /\ p.status # 500
            /\ Cardinality(ProgressOf(q.tok.userId, q.id)) = 1

\* C25: a request whose change is stored and whose audit write has been
\* issued is answered in the end, whether or not the audit write completes.
C25_AnsweredDespiteAuditStall ==
  \A r \in Slots : (reqs[r].pc = "audit") ~> (reqs[r].pc = "done")

\* C26: a request answered 415 has had its body parsed by no parser and has
\* not been counted by the limiter; a request answered 429 has been counted
\* and has not gone on to the routes; and a request reaches the routes only
\* counted, with a declared JSON body if it has one.
C26_RejectionStopsLaterStages ==
  \A c \in DOMAIN pipe :
    LET q == pipe[c]
    IN /\ q.status = 415 => (~q.parsed /\ ~q.counted /\ q.stage = "done")
       /\ q.status = TOO_MANY => (q.counted /\ q.stage = "done")
       /\ q.stage = "routes" =>
            (q.counted /\ (HasBody(q.method) => DeclaresJson(q.ctype)))

\* C27: every progress row on a lesson of a course that still exists belongs
\* to a student who has an enrollment row in that course, whatever the
\* interleaving of progress submissions with DELETE /api/enrollments/:id.
C27_ProgressOnlyWhileEnrolled ==
  \A p \in DOMAIN progress :
    LET l == progress[p].lesson_id
    IN (l \in DOMAIN lessons /\ lessons[l].course_id \in DOMAIN courses) =>
         EnrollmentOf(progress[p].student_id, lessons[l].course_id) # {}

\* C28: an update of a course or a lesson that is answered 200 carries the
\* entity in its body: the reload before the response has found the row,
\* whatever update or delete of the same row ran since the write.
C28_UpdateAnswersWithEntity ==
  \A r \in Slots :
    LET q == reqs[r]
    IN (q.pc = "done" /\ q.op \in {"put_course", "put_lesson"} /\ q.status = 200) =>
         (q.out # <<>> /\ q.out[1].id = q.id)

\* C29: a refused request adds one to its client's count and leaves the start
\* of the window where it was, and a request that arrives more than one window
\* duration after that start (or finds no entry) is admitted: a client that
\* has been refused is admitted again once its window has elapsed.
C29_RefusedClientIsReadmitted ==
  [][\A c \in Clients :
       IF c \notin DOMAIN rateLimiters'
         THEN TRUE
       ELSE IF c \notin DOMAIN rateLimiters
         THEN rlStatus'[c] = ADMIT
       ELSE IF rateLimiters'[c] = rateLimiters[c]
         THEN TRUE
       ELSE /\ rlStatus'[c] = TOO_MANY =>
                 /\ rateLimiters'[c].resetTime = rateLimiters[c].resetTime
                 /\ rateLimiters'[c].count = rateLimiters[c].count + 1
            /\ now - rateLimiters[c].resetTime > RATE_LIMIT_WINDOW_MS =>
                 /\ rlStatus'[c] = ADMIT
                 /\ rateLimiters'[c] = [count |-> 1, resetTime |-> now]]_vars

\* A client refused in the window that opened at 0, at its opening and again
\* at its last millisecond, has been admitted one millisecond later.
C29_Witness ==
  \E c \in DOMAIN traffic :
    /\ traffic[c][0].sent > traffic[c][0].admitted
    /\ traffic[c][RATE_LIMIT_WINDOW_MS].sent > 0
    /\ traffic[c][RATE_LIMIT_WINDOW_MS].admitted = 0
    /\ traffic[c][RATE_LIMIT_WINDOW_MS + 1].admitted > 0
    /\ rlStatus[c] = ADMIT
    /\ rateLimiters[c].resetTime = RATE_LIMIT_WINDOW_MS + 1

\* C30: PUT or DELETE on a lesson is never answered 500; when the parent
\* course of the lesson it loaded is gone by the time the handler reads it,
\* the request is answered 403 or 404 and has written nothing.
C30_LessonRouteSurvivesCourseDelete ==
  \A r \in Slots :
    LET q == reqs[r]
    IN (Done(q) /\ q.op \in {"put_lesson", "delete_lesson"}) =>
         /\ q.status # 500
         /\ (q.lesson # <<>> /\ q.course = <<>>) =>
              (q.status \in {403, 404} /\ q.wrote = {})
====
